---- MODULE Spec2Model ----
(***************************************************************************)
(* Model of the step lifecycle runner (pkg/runner/step.go): one stage      *)
(* invocation of runStepExecutor is a sequence of atomic steps driven by   *)
(* pc, over the run context (environment, saved state, step results,       *)
(* extra path) and the runner file-command files of the job container.     *)
(* The functions of package model (matrix expansion, strategy defaults,     *)
(* Step.GetEnv) and the environment merge of step.go are applied to         *)
(* bounded arguments under SpecCalls.                                       *)
(***************************************************************************)
EXTENDS Integers, Sequences, FiniteSets, TLC

\* ------------------------------------------------------------------ bounds
\* stage invocations explored with every input (Spec) and with the
\* file-command inputs held fixed (SpecJob)
MaxInvocations == 2
MaxJobInvocations == 3

\* ------------------------------------------------------- value domains
StepIds == {"A", "B"}
Stages == {"Pre", "Main", "Post"}

StepStatusSuccess == "success"
StepStatusFailure == "failure"
StepStatusSkipped == "skipped"

DefaultStatusCheckNone == "none"
DefaultStatusCheckSuccess == "success"
DefaultStatusCheckAlways == "always"

\* expressions are sequences of tokens; " " is a whitespace token and
\* "bad" a token the expression parser rejects
IfExprs == {<<>>, <<"true">>, <<"false">>, <<"bad">>}
CoeExprs == {<<>>, <<" ">>, <<"true">>, <<"false">>, <<"bad">>}

\* file names of the runner file commands (step.go 105-118)
outputFileCommand == "workflow/outputcmd.txt"
stateFileCommand == "workflow/statecmd.txt"
pathFileCommand == "workflow/pathcmd.txt"
envFileCommand == "workflow/envs.txt"
summaryFileCommand == "workflow/SUMMARY.md"
FileNames == {outputFileCommand, stateFileCommand, pathFileCommand, envFileCommand, summaryFileCommand}

\* maps are total functions over a key universe; Absent marks a missing key
Absent == "(absent)"

GithubFileKeys == {"GITHUB_OUTPUT", "GITHUB_STATE", "GITHUB_PATH", "GITHUB_ENV", "GITHUB_STEP_SUMMARY"}
GithubContextKeys == {"GITHUB_ACTIONS"}
EnvKeys == {"X"} \cup GithubContextKeys \cup GithubFileKeys
StateKeys == {"S"}
OutputKeys == {"O"}

\* an expression that has not been consulted yet
NoExpr == <<Absent>>

EmptyOver(keys) == [k \in keys |-> Absent]
Single(keys, key, val) == [k \in keys |-> IF k = key THEN val ELSE Absent]
KeysOf(m) == {k \in DOMAIN m : m[k] # Absent}

NoWrites ==
    [env |-> EmptyOver(EnvKeys), state |-> EmptyOver(StateKeys),
     output |-> EmptyOver(OutputKeys), path |-> <<>>, summary |-> <<>>]

\* what a step body may write to the files during one invocation: nothing,
\* one env entry, or an entry in every file
BodyWrites ==
    { NoWrites,
      [env |-> Single(EnvKeys, "X", "1"), state |-> EmptyOver(StateKeys),
       output |-> EmptyOver(OutputKeys), path |-> <<>>, summary |-> <<>>],
      [env |-> Single(EnvKeys, "X", "2"), state |-> Single(StateKeys, "S", "1"),
       output |-> Single(OutputKeys, "O", "1"), path |-> <<"p">>, summary |-> <<"s">>] }
BodyErrors == {"nil", "bodyErr"}

\* environments a step can declare, and the job container's own env
StepDeclaredEnvs == {EmptyOver(EnvKeys), Single(EnvKeys, "X", "${{2}}")}
ContainerEnvs == {Single(EnvKeys, "X", "2")}

ActPath == "/var/run/act"

VARIABLES
    pc,            \* position inside runStepExecutor, or "idle"/"returned"
    stage,         \* stage argument of the current invocation
    ifExpression,  \* step.getIfExpression(ctx, stage)
    coeExpr,       \* stepModel.RawContinueOnError, once it has been consulted
    declEnv,       \* stepModel.GetEnv(), once it has been consulted
    CurrentStep,   \* rc.CurrentStep
    stepResult,    \* the invocation's stepResult pointer (0: none)
    heap,          \* StepResult objects by pointer
    StepResults,   \* rc.StepResults: step id -> pointer (0: no entry)
    rcEnv,         \* rc.Env
    rcState,       \* state saved per step by rc.saveState
    ExtraPath,     \* rc.ExtraPath
    stepEnv,       \* *step.getEnv() of the step being invoked
    hasContainer,  \* job.Container() != nil
    containerEnv,  \* job.Container().Env
    files,         \* content of the runner file-command files
    runStep,       \* local variable runStep (FALSE until isStepEnabled sets it)
    err,           \* local variable err
    orgerr,        \* local variable orgerr
    ret,           \* value returned by the invocation ("running" until then)
    invocations,   \* number of invocations started
    invoked,       \* <<step, stage>> pairs already started
    bodyInvoked,   \* the executor was called in this invocation
    bodyErr,       \* what the executor returned in this invocation
    written,       \* what the executor wrote to the files in this invocation
    copyCalled,    \* rc.JobContainer.Copy was called in this invocation
    readLog,       \* files read in this invocation, in order
    appliedLog,    \* files whose entries were applied in this invocation
    evalLog,       \* expression evaluator calls of this invocation
    call           \* the function of package model or runner applied last: its
                   \* name, its arguments and what it returned

stepVars == <<pc, stage, ifExpression, coeExpr, declEnv, CurrentStep, stepResult, heap,
          StepResults, rcEnv, rcState, ExtraPath, stepEnv, hasContainer, containerEnv,
          files, runStep, err, orgerr, ret, invocations, invoked, bodyInvoked, bodyErr,
          written, copyCalled, readLog, appliedLog, evalLog>>

vars == <<stepVars, call>>

\* ------------------------------------------------------ StepResult objects
\* one object per stage invocation of the job
Ptrs == 1..(Cardinality(StepIds) * Cardinality(Stages))
NoResult == [Outcome |-> Absent, Conclusion |-> Absent, Outputs |-> EmptyOver(OutputKeys)]

\* step.go 68-72
NewStepResult == [Outcome |-> StepStatusSuccess, Conclusion |-> StepStatusSuccess,
                  Outputs |-> EmptyOver(OutputKeys)]

\* the outputs reachable through rc.StepResults
OutputsView(results, h) ==
    [s \in StepIds |-> IF results[s] = 0 THEN EmptyOver(OutputKeys) ELSE h[results[s]].Outputs]

EmptyFiles ==
    [f \in FileNames |-> CASE f = envFileCommand -> EmptyOver(EnvKeys)
                           [] f = stateFileCommand -> EmptyOver(StateKeys)
                           [] f = outputFileCommand -> EmptyOver(OutputKeys)
                           [] OTHER -> <<>>]

\* ------------------------------------------------------------ expressions
IsSpace(t) == t = " "

RECURSIVE TrimLeft(_)
TrimLeft(e) == IF e # <<>> /\ IsSpace(Head(e)) THEN TrimLeft(Tail(e)) ELSE e

RECURSIVE TrimRight(_)
TrimRight(e) == IF e # <<>> /\ IsSpace(e[Len(e)]) THEN TrimRight(SubSeq(e, 1, Len(e) - 1)) ELSE e

\* strings.TrimSpace
TrimSpace(e) == TrimRight(TrimLeft(e))

\* the job has failed once some recorded step concluded with failure
JobFailed(results, h) == \E s \in StepIds : results[s] # 0 /\ h[results[s]].Conclusion = StepStatusFailure

\* EvalBool of the expression evaluator: value and error of an expression
\* under a default status check
EvalBool(expr, defaultStatusCheck, jobFailed) ==
    LET e == TrimSpace(expr) IN
    IF e = <<>> THEN
        [val |-> CASE defaultStatusCheck = DefaultStatusCheckAlways -> TRUE
                   [] defaultStatusCheck = DefaultStatusCheckSuccess -> ~jobFailed
                   [] OTHER -> FALSE,
         err |-> "nil"]
    ELSE IF e = <<"true">> THEN [val |-> TRUE, err |-> "nil"]
    ELSE IF e = <<"false">> THEN [val |-> FALSE, err |-> "nil"]
    ELSE [val |-> FALSE, err |-> "parseErr"]

\* mutant: the post stage gets the default of the other stages
defaultStatusCheckOf_SuccessOnly(stg) == DefaultStatusCheckSuccess

\* step.go 230-235
defaultStatusCheckOf(stg) ==
    IF stg = "Post" THEN DefaultStatusCheckAlways ELSE DefaultStatusCheckSuccess

\* mutant: an error of the condition is dropped, the step counts as disabled
isStepEnabled_DropsError(expr, stg, jobFailed) ==
    LET r == EvalBool(expr, defaultStatusCheckOf(stg), jobFailed) IN
    [runStep |-> r.err = "nil" /\ r.val, err |-> "nil", evaluated |-> <<expr>>]

\* step.go 227-243
isStepEnabled(expr, stg, jobFailed) ==
    LET r == EvalBool(expr, defaultStatusCheckOf(stg), jobFailed) IN
    IF r.err # "nil" THEN [runStep |-> FALSE, err |-> "ifErr", evaluated |-> <<expr>>]
    ELSE [runStep |-> r.val, err |-> "nil", evaluated |-> <<expr>>]

\* mutant: the expression is not trimmed before the emptiness test
isContinueOnError_NoTrim(expr, jobFailed) ==
    IF Len(expr) = 0 THEN
        [continueOnError |-> FALSE, err |-> "nil", evaluated |-> <<>>]
    ELSE
        LET r == EvalBool(expr, DefaultStatusCheckNone, jobFailed) IN
        IF r.err # "nil" THEN [continueOnError |-> FALSE, err |-> "coeParseErr", evaluated |-> <<expr>>]
        ELSE [continueOnError |-> r.val, err |-> "nil", evaluated |-> <<expr>>]

\* mutant: a parse error of the expression counts as false
isContinueOnError_DropsError(expr, jobFailed) ==
    IF Len(TrimSpace(expr)) = 0 THEN
        [continueOnError |-> FALSE, err |-> "nil", evaluated |-> <<>>]
    ELSE
        LET r == EvalBool(expr, DefaultStatusCheckNone, jobFailed) IN
        [continueOnError |-> r.err = "nil" /\ r.val, err |-> "nil", evaluated |-> <<expr>>]

\* step.go 245-259
isContinueOnError(expr, jobFailed) ==
    IF Len(TrimSpace(expr)) = 0 THEN
        [continueOnError |-> FALSE, err |-> "nil", evaluated |-> <<>>]
    ELSE
        LET r == EvalBool(expr, DefaultStatusCheckNone, jobFailed) IN
        IF r.err # "nil" THEN [continueOnError |-> FALSE, err |-> "coeParseErr", evaluated |-> <<expr>>]
        ELSE [continueOnError |-> r.val, err |-> "nil", evaluated |-> <<expr>>]

\* Interpolate of the expression evaluator: ${{ }} templates are replaced
Interpolate(v) ==
    CASE v = "${{2}}" -> "2"
      [] v = "${{'pwsh'}}" -> "pwsh"
      [] v = "${{''}}" -> ""
      [] OTHER -> v

\* Interpolate of an evaluator whose env context is env
InterpolateWithEnv(env, v) ==
    IF v = "${{env.X}}" THEN (IF env["X"] = Absent THEN "" ELSE env["X"]) ELSE Interpolate(v)

\* ------------------------------------------------------------ environment
\* strings.HasPrefix(k, "INPUT_")
IsInputKey(k) == k \in {"INPUT_Y"}

\* the fold of step.go 278-286: every rune is replaced by the greatest rune
\* of its unicode.SimpleFold orbit, which for ASCII letters is the lower case
FoldKey(k) ==
    CASE k = "X" -> "x"
      [] k = "Path" -> "path"
      [] k = "PATH" -> "path"
      [] k = "GITHUB_ACTIONS" -> "github_actions"
      [] k = "GITHUB_OUTPUT" -> "github_output"
      [] k = "GITHUB_STATE" -> "github_state"
      [] k = "GITHUB_PATH" -> "github_path"
      [] k = "GITHUB_ENV" -> "github_env"
      [] k = "GITHUB_STEP_SUMMARY" -> "github_step_summary"
      [] OTHER -> k

RECURSIVE SetToSeq(_)
SetToSeq(S) == IF S = {} THEN <<>> ELSE LET x == CHOOSE y \in S : TRUE IN <<x>> \o SetToSeq(S \ {x})

\* step.go 268-274
RECURSIVE mergeIntoMapCaseSensitive(_, _)
mergeIntoMapCaseSensitive(target, maps) ==
    IF maps = <<>> THEN target
    ELSE LET m == Head(maps) IN
         mergeIntoMapCaseSensitive([k \in DOMAIN target |-> IF m[k] # Absent THEN m[k] ELSE target[k]],
                                   Tail(maps))

\* mutant: every key is stored under its own casing
RECURSIVE mergeSingleMapIntoMapCaseInsensitive_NoLookUp(_, _, _, _)
mergeSingleMapIntoMapCaseInsensitive_NoLookUp(lookUp, target, m, order) ==
    IF order = <<>> THEN [lookUp |-> lookUp, target |-> target]
    ELSE mergeSingleMapIntoMapCaseInsensitive_NoLookUp(
             lookUp, [target EXCEPT ![Head(order)] = m[Head(order)]], m, Tail(order))

\* step.go 276-294; order is the order in which range visits the keys of m
RECURSIVE mergeSingleMapIntoMapCaseInsensitive(_, _, _, _)
mergeSingleMapIntoMapCaseInsensitive(lookUp, target, m, order) ==
    IF order = <<>> THEN [lookUp |-> lookUp, target |-> target]
    ELSE LET k == Head(order)
             v == m[k]
             foldkey == FoldKey(k)
         IN IF lookUp[foldkey] # Absent
            THEN mergeSingleMapIntoMapCaseInsensitive(
                     lookUp, [target EXCEPT ![lookUp[foldkey]] = v], m, Tail(order))
            ELSE mergeSingleMapIntoMapCaseInsensitive(
                     [lookUp EXCEPT ![foldkey] = k], [target EXCEPT ![k] = v], m, Tail(order))

\* step.go 300-302; orders[i] is the order in which range visits maps[i]
RECURSIVE mergeMapsCaseInsensitive(_, _, _)
mergeMapsCaseInsensitive(st, maps, orders) ==
    IF maps = <<>> THEN st
    ELSE mergeMapsCaseInsensitive(
             mergeSingleMapIntoMapCaseInsensitive(st.lookUp, st.target, Head(maps), Head(orders)),
             Tail(maps), Tail(orders))

\* step.go 296-303 with the visiting orders of range made explicit
mergeIntoMapCaseInsensitiveIn(target, maps, targetOrder, orders) ==
    LET lookUp0 == [f \in {FoldKey(k) : k \in DOMAIN target} |-> Absent]
        init == mergeSingleMapIntoMapCaseInsensitive(lookUp0, target, target, targetOrder)
    IN mergeMapsCaseInsensitive(init, maps, orders).target

\* some visiting order of each of the maps
SomeOrders(maps) == [i \in 1..Len(maps) |-> SetToSeq(KeysOf(maps[i]))]

\* step.go 296-303; the maps of a stage invocation hold no two keys with one
\* fold, so the visiting order of range does not show in the result
mergeIntoMapCaseInsensitive(target, maps) ==
    mergeIntoMapCaseInsensitiveIn(target, maps, SetToSeq(KeysOf(target)), SomeOrders(maps))

\* step.go 261-266 with the visiting orders of range made explicit
mergeIntoMapIn(caseInsensitive, target, maps, targetOrder, orders) ==
    IF caseInsensitive THEN mergeIntoMapCaseInsensitiveIn(target, maps, targetOrder, orders)
    ELSE mergeIntoMapCaseSensitive(target, maps)

\* step.go 261-266
mergeIntoMap(caseInsensitive, target, maps) ==
    IF caseInsensitive THEN mergeIntoMapCaseInsensitive(target, maps)
    ELSE mergeIntoMapCaseSensitive(target, maps)

\* rc.withGithubEnv: the execution-context values are written over env
withGithubEnv(env) == [env EXCEPT !["GITHUB_ACTIONS"] = "true"]

\* mutant: the run context's env is left out of the merge
mergeEnv_WithoutRunContextEnv(caseInsensitive, env, rcenv, hasC, cenv) ==
    withGithubEnv(IF hasC THEN mergeIntoMap(caseInsensitive, env, <<cenv>>) ELSE env)

\* step.go 212-225
mergeEnv(caseInsensitive, env, rcenv, hasC, cenv) ==
    withGithubEnv(IF hasC THEN mergeIntoMap(caseInsensitive, env, <<rcenv, cenv>>)
                  ELSE mergeIntoMap(caseInsensitive, env, <<rcenv>>))

\* mutant: the step's env is merged first and the other sources over it
setupEnv_StepEnvFirst(caseInsensitive, env, rcenv, hasC, cenv, decl) ==
    LET merged == mergeEnv(caseInsensitive, mergeIntoMap(caseInsensitive, env, <<decl>>),
                           rcenv, hasC, cenv)
    IN [k \in DOMAIN merged |->
           IF merged[k] # Absent /\ ~IsInputKey(k) THEN Interpolate(merged[k]) ELSE merged[k]]

\* rc.NewExpressionEvaluator: the env context of the first evaluator is the
\* run context's env
firstEvaluatorEnv(rcenv) == rcenv

\* mutant: the second evaluator is built like the first
secondEvaluatorEnv_RunContext(rcenv, stepEnvNow) == rcenv

\* step.go 200: the env context of the second evaluator is the step's env as
\* the first loop left it
secondEvaluatorEnv(rcenv, stepEnvNow) == stepEnvNow

\* step.go 185-210
setupEnv(caseInsensitive, env, rcenv, hasC, cenv, decl) ==
    LET merged == mergeIntoMap(caseInsensitive, mergeEnv(caseInsensitive, env, rcenv, hasC, cenv), <<decl>>)
        first == [k \in DOMAIN merged |->
                    IF merged[k] # Absent /\ ~IsInputKey(k)
                    THEN InterpolateWithEnv(firstEvaluatorEnv(rcenv), merged[k])
                    ELSE merged[k]]
    IN [k \in DOMAIN first |->
           IF first[k] # Absent /\ IsInputKey(k)
           THEN InterpolateWithEnv(secondEvaluatorEnv(rcenv, first), first[k])
           ELSE first[k]]

\* path.Join
PathJoin(a, b) == a \o "/" \o b

\* step.go 102-118: the file-command paths registered in the step's env
WithFileCommandPaths(env) ==
    [env EXCEPT !["GITHUB_OUTPUT"] = PathJoin(ActPath, outputFileCommand),
                !["GITHUB_STATE"] = PathJoin(ActPath, stateFileCommand),
                !["GITHUB_PATH"] = PathJoin(ActPath, pathFileCommand),
                !["GITHUB_ENV"] = PathJoin(ActPath, envFileCommand),
                !["GITHUB_STEP_SUMMARY"] = PathJoin(ActPath, summaryFileCommand)]

\* -------------------------------------------------- run-context setters
\* rc.setEnv applied to every entry of the parsed env file
setEnv(env, entries) == [k \in DOMAIN env |-> IF entries[k] # Absent THEN entries[k] ELSE env[k]]

\* rc.saveState applied to every entry of the parsed state file
saveState(state, step, entries) ==
    [state EXCEPT ![step] = [k \in DOMAIN @ |-> IF entries[k] # Absent THEN entries[k] ELSE @[k]]]

\* rc.setOutput applied to every entry of the parsed output file: the
\* outputs of the entry rc.StepResults holds for the current step
setOutput(h, results, step, entries) ==
    IF results[step] = 0 THEN h
    ELSE [h EXCEPT ![results[step]].Outputs =
              [k \in DOMAIN @ |-> IF entries[k] # Absent THEN entries[k] ELSE @[k]]]

\* rc.UpdateExtraPath: the lines of the path file are added to rc.ExtraPath
UpdateExtraPath(extraPath, lines) == extraPath \o lines

\* run-context side state compared by the frame conditions
SideState(results, h, env, state, extraPath, fs) ==
    [env |-> env, state |-> state, outputs |-> OutputsView(results, h),
     extraPath |-> extraPath, files |-> fs]

\* ------------------------------------------------------------------ Init
\* no function applied yet
NoCall == [fn |-> "none"]

Init ==
    /\ pc = "idle"
    /\ stage = "Main"
    /\ ifExpression = NoExpr
    /\ coeExpr = NoExpr
    /\ declEnv = EmptyOver(EnvKeys)
    /\ CurrentStep = ""
    /\ stepResult = 0
    /\ heap = [p \in Ptrs |-> NoResult]
    /\ StepResults = [s \in StepIds |-> 0]
    /\ rcEnv = EmptyOver(EnvKeys)
    /\ rcState = [s \in StepIds |-> EmptyOver(StateKeys)]
    /\ ExtraPath = <<>>
    /\ stepEnv = EmptyOver(EnvKeys)
    /\ hasContainer \in BOOLEAN
    /\ containerEnv \in (IF hasContainer THEN ContainerEnvs ELSE {EmptyOver(EnvKeys)})
    /\ files = EmptyFiles
    /\ runStep = FALSE
    /\ err = "nil"
    /\ orgerr = "nil"
    /\ ret = "running"
    /\ invocations = 0
    /\ invoked = {}
    /\ bodyInvoked = FALSE
    /\ bodyErr = "nil"
    /\ written = NoWrites
    /\ copyCalled = FALSE
    /\ readLog = <<>>
    /\ appliedLog = <<>>
    /\ evalLog = <<>>
    /\ call = NoCall

\* --------------------------------------------------------------- actions
StageRank(stg) == CASE stg = "Pre" -> 1 [] stg = "Main" -> 2 [] stg = "Post" -> 3

\* the job's steps in their declared order
StepOrder == <<"A", "B">>
StepIndex(s) == CHOOSE i \in 1..Len(StepOrder) : StepOrder[i] = s

\* the job's step loop: every stage of a step runs at most once, pre before
\* main before post, and no post without main; pre stages and main stages
\* run in step order, and a step's main stage runs only after the main
\* stages of the steps before it
CanInvoke(s, stg) ==
    /\ \A st2 \in Stages : StageRank(st2) >= StageRank(stg) => <<s, st2>> \notin invoked
    /\ stg = "Post" => <<s, "Main">> \in invoked
    /\ stg \in {"Pre", "Main"} =>
           \A t \in StepIds : StepIndex(t) > StepIndex(s) => <<t, stg>> \notin invoked
    /\ stg = "Main" =>
           \A t \in StepIds : StepIndex(t) < StepIndex(s) => <<t, "Main">> \in invoked

rcConfig == <<hasContainer, containerEnv>>
rcSide == <<rcEnv, rcState, ExtraPath, files>>
history == <<bodyInvoked, bodyErr, written, copyCalled, readLog, appliedLog, evalLog>>

\* mutant: every stage installs its stepResult
installs_EveryStage(stg) == TRUE

\* step.go 73-75
installs(stg) == stg = "Main"

\* step.go 59-75: the invocation starts, the stepResult is allocated
Enter(s, stg, ifx) ==
    /\ pc \in {"idle", "returned"}
    /\ CanInvoke(s, stg)
    /\ LET ptr == invocations + 1
           results == IF installs(stg) THEN [StepResults EXCEPT ![s] = ptr] ELSE StepResults
       IN /\ stepResult' = ptr
          /\ StepResults' = results
          \* objects no longer referenced are dropped
          /\ heap' = [p \in Ptrs |-> IF p = ptr THEN NewStepResult
                                     ELSE IF \E t \in StepIds : results[t] = p THEN heap[p]
                                     ELSE NoResult]
    /\ stage' = stg
    /\ ifExpression' = ifx
    /\ CurrentStep' = s
    /\ coeExpr' = NoExpr
    /\ declEnv' = EmptyOver(EnvKeys)
    /\ runStep' = FALSE
    /\ err' = "nil"
    /\ orgerr' = "nil"
    /\ ret' = "running"
    /\ invocations' = invocations + 1
    /\ invoked' = invoked \cup {<<s, stg>>}
    /\ bodyInvoked' = FALSE
    /\ bodyErr' = "nil"
    /\ written' = NoWrites
    /\ copyCalled' = FALSE
    /\ readLog' = <<>>
    /\ appliedLog' = <<>>
    /\ evalLog' = <<>>
    \* every stage of a step starts from an empty step environment
    /\ stepEnv' = EmptyOver(EnvKeys)
    /\ pc' = "setupEnv"
    /\ UNCHANGED <<rcSide, rcConfig, call>>

\* step.go 77-80
SetupEnv(decl, caseInsensitive) ==
    /\ pc = "setupEnv"
    /\ declEnv' = decl
    /\ stepEnv' = setupEnv(caseInsensitive, stepEnv, rcEnv, hasContainer, containerEnv, decl)
    /\ pc' = "isStepEnabled"
    /\ UNCHANGED <<stage, ifExpression, coeExpr, CurrentStep, stepResult, heap, StepResults,
                   rcSide, rcConfig, call, runStep, err, orgerr, ret, invocations, invoked, history>>

\* mutant: a disabled step is marked skipped but goes on
afterIsStepEnabled_NoSkipReturn(r) ==
    IF r.err # "nil" THEN "returned" ELSE "prepare"

\* step.go 83-94: where the invocation goes after isStepEnabled returned r
afterIsStepEnabled(r) ==
    IF r.err # "nil" THEN "returned" ELSE IF ~r.runStep THEN "returned" ELSE "prepare"

\* step.go 82-94
CheckEnabled ==
    /\ pc = "isStepEnabled"
    /\ LET r == isStepEnabled(ifExpression, stage, JobFailed(StepResults, heap)) IN
       /\ evalLog' = evalLog \o r.evaluated
       /\ runStep' = r.runStep
       /\ err' = r.err
       /\ pc' = afterIsStepEnabled(r)
       /\ IF r.err # "nil" THEN
              /\ heap' = [heap EXCEPT ![stepResult].Conclusion = StepStatusFailure,
                                      ![stepResult].Outcome = StepStatusFailure]
              /\ ret' = IF pc' = "returned" THEN r.err ELSE ret
          ELSE IF ~r.runStep THEN
              /\ heap' = [heap EXCEPT ![stepResult].Conclusion = StepStatusSkipped,
                                      ![stepResult].Outcome = StepStatusSkipped]
              /\ ret' = IF pc' = "returned" THEN "nil" ELSE ret
          ELSE
              /\ heap' = heap
              /\ ret' = ret
    /\ UNCHANGED <<stage, ifExpression, coeExpr, declEnv, CurrentStep, stepResult, StepResults,
                   rcSide, rcConfig, call, stepEnv, orgerr, invocations, invoked,
                   bodyInvoked, bodyErr, written, copyCalled, readLog, appliedLog>>

\* step.go 96-135: the paths are registered and the files copied empty into
\* the container; the result of Copy is discarded
PrepareFiles(copyOk) ==
    /\ pc = "prepare"
    /\ stepEnv' = WithFileCommandPaths(stepEnv)
    /\ copyCalled' = TRUE
    /\ files' = IF copyOk THEN EmptyFiles ELSE files
    /\ pc' = "executor"
    /\ UNCHANGED <<stage, ifExpression, coeExpr, declEnv, CurrentStep, stepResult, heap,
                   StepResults, rcEnv, rcState, ExtraPath, rcConfig, call, runStep, err, orgerr, ret,
                   invocations, invoked, bodyInvoked, bodyErr, written, readLog, appliedLog,
                   evalLog>>

\* what the files hold after the body wrote w to them
WriteFiles(fs, w) ==
    [f \in FileNames |->
        CASE f = envFileCommand -> [k \in EnvKeys |-> IF w.env[k] # Absent THEN w.env[k] ELSE fs[f][k]]
          [] f = stateFileCommand -> [k \in StateKeys |-> IF w.state[k] # Absent THEN w.state[k] ELSE fs[f][k]]
          [] f = outputFileCommand -> [k \in OutputKeys |-> IF w.output[k] # Absent THEN w.output[k] ELSE fs[f][k]]
          [] f = pathFileCommand -> fs[f] \o w.path
          [] OTHER -> fs[f] \o w.summary]

\* step.go 137: the step body runs, writes its file commands and returns
RunBody(e, w) ==
    /\ pc = "executor"
    /\ bodyInvoked' = TRUE
    /\ bodyErr' = e
    /\ written' = w
    /\ err' = e
    /\ files' = WriteFiles(files, w)
    /\ pc' = "result"
    /\ UNCHANGED <<stage, ifExpression, coeExpr, declEnv, CurrentStep, stepResult, heap,
                   StepResults, rcEnv, rcState, ExtraPath, rcConfig, call, stepEnv, runStep, orgerr,
                   ret, invocations, invoked, copyCalled, readLog, appliedLog, evalLog>>

\* mutant: a failing body leaves the outcome as it was
markOutcomeFailure_Keeps(h, ptr) == h

\* step.go 142: a failing body sets the outcome of the stepResult
markOutcomeFailure(h, ptr) == [h EXCEPT ![ptr].Outcome = StepStatusFailure]

\* step.go 139-159: the result of the body and continue-on-error
HandleResult(coe) ==
    /\ pc = "result"
    /\ IF err = "nil" THEN
           /\ pc' = "processEnv"
           /\ UNCHANGED <<heap, err, ret, coeExpr, evalLog>>
       ELSE
           LET r == isContinueOnError(coe, JobFailed(StepResults, heap))
               failed == markOutcomeFailure(heap, stepResult)
           IN /\ coeExpr' = coe
              /\ evalLog' = evalLog \o r.evaluated
              /\ IF r.err # "nil" THEN
                     /\ heap' = [failed EXCEPT ![stepResult].Conclusion = StepStatusFailure]
                     /\ err' = err
                     /\ ret' = r.err
                     /\ pc' = "returned"
                 ELSE IF r.continueOnError THEN
                     /\ heap' = [failed EXCEPT ![stepResult].Conclusion = StepStatusSuccess]
                     /\ err' = "nil"
                     /\ ret' = ret
                     /\ pc' = "processEnv"
                 ELSE
                     /\ heap' = [failed EXCEPT ![stepResult].Conclusion = StepStatusFailure]
                     /\ err' = err
                     /\ ret' = ret
                     /\ pc' = "processEnv"
    /\ UNCHANGED <<stage, ifExpression, declEnv, CurrentStep, stepResult, StepResults,
                   rcSide, rcConfig, call, stepEnv, runStep, orgerr, invocations, invoked,
                   bodyInvoked, bodyErr, written, copyCalled, readLog, appliedLog>>

\* mutant: a failed processing returns the error kept in orgerr
processingResult_ReturnsOrgerr(fileErr, org) == org

\* step.go 163-165, 167-169, 171-173, 175-177: what a failed processing returns
processingResult(fileErr, org) == fileErr

\* step.go 160-165: orgerr is taken and the env file is processed
\* (processRunnerEnvFileCommand, step.go 47-57, with rc.setEnv)
ProcessEnvFile(readOk) ==
    /\ pc = "processEnv"
    /\ orgerr' = err
    /\ readLog' = Append(readLog, envFileCommand)
    /\ IF readOk THEN
           /\ rcEnv' = setEnv(rcEnv, files[envFileCommand])
           /\ appliedLog' = Append(appliedLog, envFileCommand)
           /\ err' = "nil"
           /\ ret' = ret
           /\ pc' = "processState"
       ELSE
           /\ err' = "envFileErr"
           /\ ret' = processingResult("envFileErr", err)
           /\ pc' = "returned"
           /\ UNCHANGED <<rcEnv, appliedLog>>
    /\ UNCHANGED <<stage, ifExpression, coeExpr, declEnv, CurrentStep, stepResult, heap,
                   StepResults, rcState, ExtraPath, files, rcConfig, call, stepEnv, invocations,
                   invoked, runStep, bodyInvoked, bodyErr, written, copyCalled, evalLog>>

\* step.go 166-169 (processRunnerEnvFileCommand with rc.saveState)
ProcessStateFile(readOk) ==
    /\ pc = "processState"
    /\ readLog' = Append(readLog, stateFileCommand)
    /\ IF readOk THEN
           /\ rcState' = saveState(rcState, CurrentStep, files[stateFileCommand])
           /\ appliedLog' = Append(appliedLog, stateFileCommand)
           /\ err' = "nil"
           /\ ret' = ret
           /\ pc' = "processOutput"
       ELSE
           /\ err' = "stateFileErr"
           /\ ret' = processingResult("stateFileErr", orgerr)
           /\ pc' = "returned"
           /\ UNCHANGED <<rcState, appliedLog>>
    /\ UNCHANGED <<stage, ifExpression, coeExpr, declEnv, CurrentStep, stepResult, heap,
                   StepResults, rcEnv, ExtraPath, files, rcConfig, call, stepEnv, orgerr, invocations,
                   invoked, runStep, bodyInvoked, bodyErr, written, copyCalled, evalLog>>

\* step.go 170-173 (processRunnerEnvFileCommand with rc.setOutput)
ProcessOutputFile(readOk) ==
    /\ pc = "processOutput"
    /\ readLog' = Append(readLog, outputFileCommand)
    /\ IF readOk THEN
           /\ heap' = setOutput(heap, StepResults, CurrentStep, files[outputFileCommand])
           /\ appliedLog' = Append(appliedLog, outputFileCommand)
           /\ err' = "nil"
           /\ ret' = ret
           /\ pc' = "processPath"
       ELSE
           /\ err' = "outputFileErr"
           /\ ret' = processingResult("outputFileErr", orgerr)
           /\ pc' = "returned"
           /\ UNCHANGED <<heap, appliedLog>>
    /\ UNCHANGED <<stage, ifExpression, coeExpr, declEnv, CurrentStep, stepResult,
                   StepResults, rcSide, rcConfig, call, stepEnv, orgerr, invocations,
                   invoked, runStep, bodyInvoked, bodyErr, written, copyCalled, evalLog>>

\* step.go 174-177 (rc.UpdateExtraPath)
ProcessPathFile(readOk) ==
    /\ pc = "processPath"
    /\ readLog' = Append(readLog, pathFileCommand)
    /\ IF readOk THEN
           /\ ExtraPath' = UpdateExtraPath(ExtraPath, files[pathFileCommand])
           /\ appliedLog' = Append(appliedLog, pathFileCommand)
           /\ err' = "nil"
           /\ ret' = ret
           /\ pc' = "finish"
       ELSE
           /\ err' = "pathFileErr"
           /\ ret' = processingResult("pathFileErr", orgerr)
           /\ pc' = "returned"
           /\ UNCHANGED <<ExtraPath, appliedLog>>
    /\ UNCHANGED <<stage, ifExpression, coeExpr, declEnv, CurrentStep, stepResult, heap,
                   StepResults, rcEnv, rcState, files, rcConfig, call, stepEnv, orgerr, invocations,
                   invoked, runStep, bodyInvoked, bodyErr, written, copyCalled, evalLog>>

\* step.go 178-181
Finish ==
    /\ pc = "finish"
    /\ ret' = IF orgerr # "nil" THEN orgerr ELSE err
    /\ pc' = "returned"
    /\ UNCHANGED <<stage, ifExpression, coeExpr, declEnv, CurrentStep, stepResult, heap,
                   StepResults, rcSide, rcConfig, call, stepEnv, runStep, err, orgerr, invocations,
                   invoked, history>>

Next ==
    \/ /\ invocations < MaxInvocations
       /\ \E s \in StepIds, stg \in Stages, ifx \in IfExprs : Enter(s, stg, ifx)
    \/ \E decl \in StepDeclaredEnvs, ci \in BOOLEAN : SetupEnv(decl, ci)
    \/ CheckEnabled
    \/ \E copyOk \in BOOLEAN : PrepareFiles(copyOk)
    \/ \E e \in BodyErrors, w \in BodyWrites : RunBody(e, w)
    \/ \E coe \in CoeExprs : HandleResult(coe)
    \/ \E readOk \in BOOLEAN : ProcessEnvFile(readOk)
    \/ \E readOk \in BOOLEAN : ProcessStateFile(readOk)
    \/ \E readOk \in BOOLEAN : ProcessOutputFile(readOk)
    \/ \E readOk \in BOOLEAN : ProcessPathFile(readOk)
    \/ Finish

Spec == Init /\ [][Next]_vars

\* the same job followed over more stage invocations: bodies write no file
\* commands, the files are copied and read without failure, steps declare no env
NextJob ==
    \/ /\ invocations < MaxJobInvocations
       /\ \E s \in StepIds, stg \in Stages, ifx \in IfExprs : Enter(s, stg, ifx)
    \/ \E ci \in BOOLEAN : SetupEnv(EmptyOver(EnvKeys), ci)
    \/ CheckEnabled
    \/ PrepareFiles(TRUE)
    \/ \E e \in BodyErrors : RunBody(e, NoWrites)
    \/ \E coe \in CoeExprs : HandleResult(coe)
    \/ ProcessEnvFile(TRUE)
    \/ ProcessStateFile(TRUE)
    \/ ProcessOutputFile(TRUE)
    \/ ProcessPathFile(TRUE)
    \/ Finish

SpecJob == Init /\ [][NextJob]_vars

\* ------------------------------------------------------------ properties
Returned == pc = "returned"
Result == heap[stepResult]
FileErrors == {"envFileErr", "stateFileErr", "outputFileErr", "pathFileErr"}
ProcessingOrder == <<envFileCommand, stateFileCommand, outputFileCommand, pathFileCommand>>

\* the body ran and returned an error
BodyFailed == bodyInvoked /\ bodyErr # "nil"
\* the processing of some file-command file failed
ProcessingFailed == Len(readLog) > Len(appliedLog)
\* the continue-on-error expression has been consulted and ...
CoeEmpty == coeExpr # NoExpr /\ TrimSpace(coeExpr) = <<>>
CoeValue == EvalBool(coeExpr, DefaultStatusCheckNone, FALSE)
CoeMalformed == coeExpr # NoExpr /\ ~CoeEmpty /\ CoeValue.err # "nil"
CoeTrue == coeExpr # NoExpr /\ ~CoeEmpty /\ CoeValue.err = "nil" /\ CoeValue.val
CoeFalse == coeExpr # NoExpr /\ ~CoeEmpty /\ CoeValue.err = "nil" /\ ~CoeValue.val
\* another step of the job has concluded with failure
EarlierFailed ==
    \E t \in StepIds \ {CurrentStep} :
        StepResults[t] # 0 /\ heap[StepResults[t]].Conclusion = StepStatusFailure
\* the invocation is past the condition check
PastCheck == pc \notin {"idle", "setupEnv", "isStepEnabled"}
SideStateNow == SideState(StepResults, heap, rcEnv, rcState, ExtraPath, files)

\* C1: when the body fails unsuppressed and the processing of a file-command
\* file then fails too, the invocation returns the body's error; a processing
\* error is the result only when the body had succeeded (or was suppressed).
C1_BodyErrorNotMasked ==
    Returned =>
        /\ (BodyFailed /\ (CoeEmpty \/ CoeFalse) /\ ProcessingFailed) => ret = bodyErr
        /\ ret \in FileErrors => (bodyErr = "nil" \/ CoeTrue)

\* C2: a failing body with continue-on-error true: the invocation returns
\* success if the processing succeeds, outcome = failure, conclusion = success;
\* with continue-on-error false: outcome = conclusion = failure and the body's
\* error is returned.
C2_ContinueOnError ==
    (Returned /\ BodyFailed) =>
        /\ CoeTrue => /\ Result.Outcome = StepStatusFailure
                      /\ Result.Conclusion = StepStatusSuccess
                      /\ (~ProcessingFailed => ret = "nil")
        /\ CoeFalse => /\ Result.Outcome = StepStatusFailure
                       /\ Result.Conclusion = StepStatusFailure
                       /\ ret = bodyErr

\* the invocation went on to the step body / was skipped without running it
BodyRuns == pc \in {"prepare", "executor"} \/ bodyInvoked
WasSkipped ==
    /\ Returned /\ ret = "nil" /\ ~bodyInvoked
    /\ Result.Outcome = StepStatusSkipped /\ Result.Conclusion = StepStatusSkipped

\* C3: with no explicit condition and an earlier step of the job failed, a
\* post-stage invocation runs the step body, a pre- or main-stage invocation
\* is skipped.
C3_DefaultStatusCheck ==
    (PastCheck /\ ifExpression = <<>> /\ EarlierFailed) =>
        /\ stage = "Post" => BodyRuns
        /\ stage \in {"Pre", "Main"} => WasSkipped

C3_Witness ==
    /\ Returned /\ stage = "Post" /\ ifExpression = <<>> /\ EarlierFailed /\ bodyInvoked

C4_SkippedState ==
    (PastCheck /\ ~runStep /\ err = "nil") =>
        /\ Returned /\ ret = "nil"
        /\ ~bodyInvoked /\ ~copyCalled /\ readLog = <<>> /\ appliedLog = <<>>
        /\ Result.Outcome = StepStatusSkipped /\ Result.Conclusion = StepStatusSkipped

C4_SkippedFrame ==
    (pc' = "setupEnv" \/ pc' = "isStepEnabled" \/ (pc = "isStepEnabled" /\ pc' = "returned"))
        => SideStateNow' = SideStateNow

\* C4: when the condition evaluates to false the invocation returns success,
\* the body is not invoked, the StepResult is skipped/skipped, the files are
\* neither reset nor read, and no step of the invocation changes the run
\* context's environment, saved state, step outputs or extra path.
C4_SkipNoSideEffects == [](C4_SkippedState) /\ [][C4_SkippedFrame]_vars

C4_Witness ==
    /\ Returned /\ ~runStep /\ err = "nil" /\ invocations = 2
    /\ rcEnv["X"] # Absent /\ ExtraPath # <<>>

\* the error a failed processing of file f leaves in err
FileErrorOf(f) ==
    CASE f = envFileCommand -> "envFileErr"
      [] f = stateFileCommand -> "stateFileErr"
      [] f = outputFileCommand -> "outputFileErr"
      [] f = pathFileCommand -> "pathFileErr"

Prefix(seq, n) == SubSeq(seq, 1, n)
Applied(f) == \E i \in 1..Len(appliedLog) : appliedLog[i] = f

C6_CoeParseError ==
    (BodyFailed /\ CoeMalformed) =>
        /\ Returned /\ ret = "coeParseErr" /\ ret # bodyErr
        /\ Result.Outcome = StepStatusFailure /\ Result.Conclusion = StepStatusFailure
        /\ readLog = <<>> /\ appliedLog = <<>>

C6_Witness ==
    /\ Returned /\ BodyFailed /\ CoeMalformed /\ written.env["X"] = "1" /\ rcEnv["X"] = Absent

\* C7: for an empty or whitespace-only continue-on-error expression the
\* evaluator is not invoked and the result is false without error, so a
\* failing body fails the stage.
C7_EmptyCoeNeverEvaluated ==
    (BodyFailed /\ CoeEmpty) =>
        /\ evalLog = <<ifExpression>>
        /\ Result.Outcome = StepStatusFailure /\ Result.Conclusion = StepStatusFailure
        /\ pc \in {"processEnv", "processState", "processOutput", "processPath", "finish", "returned"}
        /\ err # "nil" \/ orgerr # "nil"
        /\ Returned => ret \notin {"nil", "running"}

C7_Witness ==
    /\ Returned /\ BodyFailed /\ coeExpr = <<" ">> /\ ret = bodyErr

\* the condition of the stage does not parse
IfMalformed == ifExpression # NoExpr /\ EvalBool(ifExpression, DefaultStatusCheckNone, FALSE).err # "nil"

\* C8: a malformed condition makes the invocation return an error without
\* invoking the body or creating or processing a file; a main-stage
\* invocation records outcome = conclusion = failure.
C8_MalformedCondition ==
    (PastCheck /\ IfMalformed) =>
        /\ Returned /\ ret \notin {"nil", "running"}
        /\ ~bodyInvoked /\ ~copyCalled /\ readLog = <<>> /\ appliedLog = <<>>
        /\ stage = "Main" =>
               /\ StepResults[CurrentStep] # 0
               /\ heap[StepResults[CurrentStep]].Outcome = StepStatusFailure
               /\ heap[StepResults[CurrentStep]].Conclusion = StepStatusFailure

C8_Witness ==
    /\ Returned /\ stage = "Main" /\ ifExpression = <<"bad">> /\ invocations = 2

\* a source of higher precedence than the run context's env defines X
HigherRedefinesX == (hasContainer /\ containerEnv["X"] # Absent) \/ declEnv["X"] # Absent
\* setupEnv has run and the env file of this invocation is not yet processed
EnvMerged == pc \in {"isStepEnabled", "prepare", "executor", "result", "processEnv"}

C9_Applied ==
    (Returned /\ bodyInvoked /\ written.env["X"] = "1" /\ Applied(envFileCommand)) => rcEnv["X"] = "1"
C9_Merged ==
    (EnvMerged /\ rcEnv["X"] = "1" /\ ~HigherRedefinesX) => stepEnv["X"] = "1"
C9_Kept ==
    (rcEnv["X"] = "1" /\ rcEnv'["X"] # "1") =>
        /\ pc = "processEnv"
        /\ files[envFileCommand]["X"] \notin {Absent, "1"}
        /\ rcEnv'["X"] = files[envFileCommand]["X"]

KeySet == {s \in StepIds : StepResults[s] # 0}

C10_Step ==
    /\ stage' \in {"Pre", "Post"} => StepResults' = StepResults
    /\ KeySet \subseteq KeySet'
    /\ StepResults' # StepResults =>
           /\ pc' = "setupEnv" /\ stage' = "Main"
           /\ StepResults' = [StepResults EXCEPT ![CurrentStep'] = stepResult']
    /\ (pc' = "setupEnv" /\ stage' = "Main") =>
           /\ StepResults'[CurrentStep'] = stepResult'
           /\ stepResult' # 0
           /\ heap'[stepResult'] = NewStepResult

\* C10: a pre- or post-stage invocation never changes the StepResults map;
\* only a main-stage invocation installs an entry (fresh, success/success,
\* no outputs, keyed by the step id); the key set only grows.
C10_StepResultsOnlyGrow == [][C10_Step]_vars

C10_Witness ==
    /\ Returned /\ stage = "Post" /\ Applied(outputFileCommand) /\ written.output["O"] = "1"
    /\ StepResults[CurrentStep] # 0 /\ heap[StepResults[CurrentStep]].Outputs["O"] = "1"

\* ------------------------------------------------- package model: strategy
\* bounds of the arguments the functions of package model are applied to
MaxIncludes == 1
MaxExcludes == 2

\* keys a decoded matrix mapping can hold: two axes, include and exclude
AxisKeys == {"os", "version"}
MatrixKeys == AxisKeys \cup {"include", "exclude"}
\* keys of a binding, that is of a product tuple or of an include or exclude
\* entry; extra is a key no matrix holds
EntryKeys == AxisKeys \cup {"extra", "exclude"}

SeqsUpTo(S, n) == UNION {[1..k -> S] : k \in 0..n}

Binding(o, v, x, e) ==
    [k \in EntryKeys |-> CASE k = "os" -> o [] k = "version" -> v
                           [] k = "extra" -> x [] k = "exclude" -> e]

\* make(map[string]interface{})
EmptyBinding == EmptyOver(EntryKeys)

\* the include and exclude entries a workflow is given
Entries ==
    { EmptyBinding,
      Binding("a", "1", Absent, Absent),
      Binding(Absent, "2", Absent, Absent),
      Binding(Absent, Absent, "x", Absent),
      Binding(Absent, Absent, Absent, "x"),
      Binding("b", Absent, "x", Absent) }

\* values of the axes; the values of one axis are distinct
OsLists == {<<>>, <<"a">>, <<"a", "b">>}
VersionLists == {<<"1", "2">>}

\* a decoded matrix: the keys it holds and the list under each key (nil, the
\* empty list, under a key it does not hold)
MatrixOf(ks, o, v, i, e) ==
    [keys |-> ks, os |-> o, version |-> v, include |-> i, exclude |-> e]

NoMatrix == MatrixOf({}, <<>>, <<>>, <<>>, <<>>)

\* the keys of a matrix with these lists: an axis can be held with an empty
\* list of values, the other keys are held when their list is not empty
KeysFor(hasOs, v, i, e) ==
    (IF hasOs THEN {"os"} ELSE {}) \cup (IF v # <<>> THEN {"version"} ELSE {})
    \cup (IF i # <<>> THEN {"include"} ELSE {}) \cup (IF e # <<>> THEN {"exclude"} ELSE {})

Matrices ==
    { MatrixOf(KeysFor(o[1], v, i, e), o[2], v, i, e) :
        o \in {<<FALSE, <<>>>>} \cup {<<TRUE, l>> : l \in OsLists},
        v \in VersionLists \cup {<<>>},
        i \in SeqsUpTo(Entries, MaxIncludes), e \in SeqsUpTo(Entries, MaxExcludes) }

\* Job: Strategy is nil or not, RawMatrix is a mapping node or not
JobOf(hasStrategy, isMapping, m) ==
    [hasStrategy |-> hasStrategy, isMapping |-> isMapping, matrix |-> m]

Jobs ==
    {JobOf(FALSE, FALSE, NoMatrix), JobOf(TRUE, FALSE, NoMatrix)}
    \cup {JobOf(TRUE, TRUE, m) : m \in Matrices}

\* _, ok := m[k]
HasKey(m, k) == k \in m.keys

\* delete(m, k)
Delete(m, k) ==
    CASE k = "include" -> [m EXCEPT !.keys = @ \ {k}, !.include = <<>>]
      [] k = "exclude" -> [m EXCEPT !.keys = @ \ {k}, !.exclude = <<>>]

\* the orders in which range can visit the keys ks of a map
Orders(ks) ==
    {o \in [1..Cardinality(ks) -> ks] : \A i, j \in 1..Cardinality(ks) : i # j => o[i] # o[j]}

\* common.CartesianProduct over the axes of m, visited in the order names:
\* the last axis varies fastest; no tuple when an axis has no value
RECURSIVE CartesianProduct(_, _)
CartesianProduct(m, names) ==
    IF names = <<>> THEN <<EmptyBinding>>
    ELSE LET k == Head(names)
             rest == CartesianProduct(m, Tail(names))
             n == Len(rest)
         IN [i \in 1..(Len(m[k]) * n) |->
                [rest[((i - 1) % n) + 1] EXCEPT ![k] = m[k][((i - 1) \div n) + 1]]]

\* part_003 233-237, Job.Matrix 217-226: nil without a mapping node
Matrix(j) == IF j.isMapping THEN j.matrix ELSE NoMatrix
HasMatrix(j) == j.hasStrategy /\ j.isMapping

\* mutant: every include entry is taken
includesOf_All(m) == m.include

\* part_003 238-260: an include entry is taken when one of its keys is a key
\* of the matrix, which at this point still holds include and exclude
includesOf(m) ==
    SelectSeq(m.include, LAMBDA i : \E k \in KeysOf(i) : HasKey(m, k))

\* part_003 264-274: log.Fatalf ends the process
excludeIsFatal(m) ==
    \E i \in 1..Len(m.exclude) : \E k \in KeysOf(m.exclude[i]) : ~HasKey(m, k)

RECURSIVE Repeat(_, _)
Repeat(e, n) == IF n = 0 THEN <<>> ELSE <<e>> \o Repeat(e, n - 1)

\* part_003 263-274: an exclude entry is appended once for each of its keys
RECURSIVE excludesOf(_)
excludesOf(es) ==
    IF es = <<>> THEN <<>>
    ELSE Repeat(Head(es), Cardinality(KeysOf(Head(es)))) \o excludesOf(Tail(es))

\* mutant: an exclude entry must equal the tuple
commonKeysMatch_Equal(a, b) == a = b

\* part_003 301-308
commonKeysMatch(a, b) ==
    \A aKey \in KeysOf(a) : ~(b[aKey] # Absent /\ a[aKey] # b[aKey])

\* mutant: the list starts with an empty binding
initialMatrixes_OneEmpty == <<EmptyBinding>>

\* part_003 232
initialMatrixes == <<>>

\* mutant: nothing is appended for a job without a matrix
withoutMatrix_Nothing == initialMatrixes

\* part_003 292-297
withoutMatrix == initialMatrixes \o <<EmptyBinding>>

\* part_003 231-299; order is the order in which CartesianProduct visits the
\* axes. fatal: the process was ended by log.Fatalf and nothing is returned
GetMatrixes(j, order) ==
    IF ~j.hasStrategy THEN [fatal |-> FALSE, matrixes |-> withoutMatrix]
    ELSE IF ~j.isMapping THEN [fatal |-> FALSE, matrixes |-> withoutMatrix]
    ELSE LET m == Matrix(j)
             includes == includesOf(m)
             m1 == Delete(m, "include")
         IN IF excludeIsFatal(m1) THEN [fatal |-> TRUE, matrixes |-> <<>>]
            ELSE LET excludes == excludesOf(m1.exclude)
                     m2 == Delete(m1, "exclude")
                     matrixProduct == CartesianProduct(m2, order)
                     kept == SelectSeq(matrixProduct,
                                 LAMBDA matrix : \A i \in 1..Len(excludes) :
                                                     ~commonKeysMatch(matrix, excludes[i]))
                 IN [fatal |-> FALSE, matrixes |-> (initialMatrixes \o kept) \o includes]

\* ------------------------------------------ Strategy: max-parallel, fail-fast
MaxLiteralLen == 2

\* the characters of a max-parallel literal
LiteralChars == {"0", "1", "4", "-", "x"}
MaxParallelStrings == SeqsUpTo(LiteralChars, MaxLiteralLen)

IsDigit(c) == c \in {"0", "1", "2", "3", "4", "5", "6", "7", "8", "9"}
DigitValue(c) ==
    CASE c = "0" -> 0 [] c = "1" -> 1 [] c = "2" -> 2 [] c = "3" -> 3 [] c = "4" -> 4
      [] c = "5" -> 5 [] c = "6" -> 6 [] c = "7" -> 7 [] c = "8" -> 8 [] c = "9" -> 9

RECURSIVE Number(_)
Number(digits) ==
    IF digits = <<>> THEN 0
    ELSE Number(SubSeq(digits, 1, Len(digits) - 1)) * 10 + DigitValue(digits[Len(digits)])

\* strconv.Atoi: an optional sign and at least one digit; 0 with the error
\* for any other string
Atoi(s) ==
    LET signed == s # <<>> /\ Head(s) \in {"-", "+"}
        digits == IF signed THEN Tail(s) ELSE s
    IN IF digits = <<>> \/ \E i \in 1..Len(digits) : ~IsDigit(digits[i])
       THEN [val |-> 0, err |-> TRUE]
       ELSE [val |-> IF signed /\ Head(s) = "-" THEN 0 - Number(digits) ELSE Number(digits),
             err |-> FALSE]

\* part_003 109-123: the result of Atoi is assigned to maxParallel together
\* with err, which is only logged
GetMaxParallel(MaxParallelString) ==
    LET maxParallel == 4 IN
    IF MaxParallelString # <<>> THEN Atoi(MaxParallelString).val ELSE maxParallel

\* the fail-fast literals a workflow is given
FailFastStrings == {"", "true", "false", "1", "0", "T", "False", "yes", "tRuE"}

\* strconv.ParseBool
ParseBool(str) ==
    IF str \in {"1", "t", "T", "TRUE", "true", "True"} THEN [val |-> TRUE, err |-> FALSE]
    ELSE IF str \in {"0", "f", "F", "FALSE", "false", "False"} THEN [val |-> FALSE, err |-> FALSE]
    ELSE [val |-> FALSE, err |-> TRUE]

\* part_003 126-137: the result of ParseBool is assigned to failFast together
\* with err, which is only logged
GetFailFast(FailFastString) ==
    LET failFast == TRUE IN
    IF FailFastString # "" THEN ParseBool(FailFastString).val ELSE failFast

\* ------------------------------------------------------------ Step.GetEnv
MaxWith == 2

\* strings are sequences of characters; the `with` keys a step is given
WithKeys == {<<"a">>, <<"A">>, <<"a", " ">>, <<"a", "_">>, <<"a", "-">>, <<"1", ".">>}
WithValues == {"v", "w"}
\* Step.With: at most MaxWith keys
Withs ==
    UNION {[ks -> WithValues] : ks \in {K \in SUBSET WithKeys : Cardinality(K) <= MaxWith}}

\* fmt.Sprintf("INPUT_%s", envKey)
InputKey(envKey) == <<"I", "N", "P", "U", "T", "_">> \o envKey

\* Step.Environment(): the env a step declares
StepEnvironments ==
    { <<>>,
      (<<"X">> :> "e"),
      (InputKey(<<"A">>) :> "e"),
      (<<"X">> :> "e") @@ (InputKey(<<"A", "_">>) :> "e") }

\* strings.ToUpper
ToUpperChar(c) == IF c = "a" THEN "A" ELSE c
ToUpper(str) == [i \in 1..Len(str) |-> ToUpperChar(str[i])]

\* regexp.MustCompile("[^A-Z0-9-]").ReplaceAllString(str, "_")
ReplaceAllString(str) ==
    [i \in 1..Len(str) |-> IF str[i] \in {"A", "1", "-"} THEN str[i] ELSE "_"]

\* mutant: the key is only upper-cased, as Step.GetEnv of part_000 (58-69) does
envKeyOf_UpperOnly(k) == InputKey(ToUpper(k))

\* part_003 360-361
envKeyOf(k) == InputKey(ToUpper(ReplaceAllString(ToUpper(k))))

\* part_003 359-363; order is the order in which range visits the keys of With
RECURSIVE withIntoEnv(_, _, _)
withIntoEnv(env, With, order) ==
    IF order = <<>> THEN env
    ELSE LET k == Head(order)
             v == With[k]
         IN withIntoEnv((envKeyOf(k) :> v) @@ env, With, Tail(order))

\* part_003 355-365
GetEnv(Environment, With, order) == withIntoEnv(Environment, With, order)

\* Job.GetMatrixes applied to a job
CallGetMatrixes(j, order) ==
    /\ call = NoCall
    /\ call' = [fn |-> "GetMatrixes", job |-> j, order |-> order, out |-> GetMatrixes(j, order)]
    /\ UNCHANGED stepVars

\* Strategy.GetMaxParallel applied to a strategy
CallGetMaxParallel(str) ==
    /\ call = NoCall
    /\ call' = [fn |-> "GetMaxParallel", MaxParallelString |-> str, out |-> GetMaxParallel(str)]
    /\ UNCHANGED stepVars

\* Strategy.GetFailFast applied to a strategy
CallGetFailFast(str) ==
    /\ call = NoCall
    /\ call' = [fn |-> "GetFailFast", FailFastString |-> str, out |-> GetFailFast(str)]
    /\ UNCHANGED stepVars

\* the environments setupEnv is applied to: each source defines X and
\* GITHUB_ACTIONS or not, with a value that names the source
EnvOf(x, ga) == [k \in EnvKeys |-> IF k = "X" THEN x ELSE IF k = "GITHUB_ACTIONS" THEN ga ELSE Absent]
JobEnvs == {EnvOf(x, ga) : x \in {Absent, "job"}, ga \in {Absent, "job"}}
JobContainerEnvs == {EnvOf(x, ga) : x \in {Absent, "container"}, ga \in {Absent, "container"}}
StepEnvs == {EnvOf(x, ga) : x \in {Absent, "step", "${{2}}"}, ga \in {Absent, "step"}}

\* Step.GetEnv applied to a step
CallGetEnv(Environment, With, order) ==
    /\ call = NoCall
    /\ call' = [fn |-> "GetEnv", Environment |-> Environment, With |-> With, order |-> order,
                out |-> GetEnv(Environment, With, order)]
    /\ UNCHANGED stepVars

\* setupEnv applied to a step with an empty env
CallSetupEnv(caseInsensitive, rcenv, hasC, cenv, decl) ==
    /\ call = NoCall
    /\ call' = [fn |-> "setupEnv", caseInsensitive |-> caseInsensitive, rcenv |-> rcenv,
                hasC |-> hasC, cenv |-> cenv, decl |-> decl,
                out |-> setupEnv(caseInsensitive, EmptyOver(EnvKeys), rcenv, hasC, cenv, decl)]
    /\ UNCHANGED stepVars

\* the maps mergeIntoMap is applied to: two casings of one name
MaxMaps == 2
MergeKeys == {"Path", "PATH"}
MergeMaps == [MergeKeys -> {Absent, "1", "2"}]
\* targets that hold no two keys with one fold
MergeTargets ==
    {EmptyOver(MergeKeys), Single(MergeKeys, "Path", "0"), Single(MergeKeys, "PATH", "0")}
\* the orders in which range can visit each of the maps
OrdersOf(maps) ==
    {os \in [1..Len(maps) -> UNION {Orders(K) : K \in SUBSET MergeKeys}] :
        \A i \in 1..Len(maps) : os[i] \in Orders(KeysOf(maps[i]))}

\* mergeIntoMap applied to a target and a sequence of maps
CallMergeIntoMap(caseInsensitive, target, maps, orders) ==
    /\ call = NoCall
    /\ call' = [fn |-> "mergeIntoMap", caseInsensitive |-> caseInsensitive, target |-> target,
                maps |-> maps, orders |-> orders,
                out |-> mergeIntoMapIn(caseInsensitive, target, maps,
                                       SetToSeq(KeysOf(target)), orders)]
    /\ UNCHANGED stepVars

\* ------------------------------------------ package runner: shell scripts
\* the longest chain of parent run contexts
MaxParents == 2

\* step ids of the steps whose scripts are named
ScriptStepIds == {"build", "outer", "inner"}

\* a run context is given by the chain of its parents: the CurrentStep of
\* rc.Parent, of rc.Parent.Parent, and so on outward; <<>> when rc.Parent is nil
ParentChains == SeqsUpTo(ScriptStepIds, MaxParents)

\* a string is the sequence of the pieces it was formatted from
\* fmt.Sprintf("%s-composite-%s", rcs.Parent.CurrentStep, scriptName)
compositeName(parentStep, scriptName) == <<parentStep, "-composite-">> \o scriptName

\* mutant: the chain is walked from the outermost parent inward
RECURSIVE compositeNames_Inward(_, _)
compositeNames_Inward(parents, scriptName) ==
    IF parents = <<>> THEN scriptName
    ELSE compositeNames_Inward(SubSeq(parents, 1, Len(parents) - 1),
                               compositeName(parents[Len(parents)], scriptName))

\* step_run.go 33-35: the loop over rcs = rc, rcs.Parent, ... while rcs.Parent != nil
RECURSIVE compositeNames(_, _)
compositeNames(parents, scriptName) ==
    IF parents = <<>> THEN scriptName
    ELSE compositeNames(Tail(parents), compositeName(Head(parents), scriptName))

\* mutant: the parents are not walked
getScriptName_NoParents(parents, ID) == <<"workflow/", ID>>

\* step_run.go 31-37
getScriptName(parents, ID) == <<"workflow/">> \o compositeNames(parents, <<ID>>)

\* getScriptName applied to a run context and a step
CallGetScriptName(parents, ID) ==
    /\ call' = [fn |-> "getScriptName", parents |-> parents, ID |-> ID,
                out |-> getScriptName(parents, ID)]
    /\ UNCHANGED stepVars

\* the shells a step, a job or a workflow can name; zsh stands for a shell
\* without an entry in the tables, the ${{ }} values for expressions
ShellNames == {"bash", "sh", "pwsh", "powershell", "cmd", "python", "zsh"}
StepShells == {""} \cup ShellNames \cup {"${{'pwsh'}}", "${{''}}"}
JobDefaultShells == {"", "bash", "${{'pwsh'}}", "${{''}}"}
WorkflowDefaultShells == {"", "cmd", "${{'pwsh'}}"}

\* job.Container(): nil, or a container spec with or without an image
NoContainerSpec == [isNil |-> TRUE, Image |-> ""]
ContainerSpecs == {NoContainerSpec, [isNil |-> FALSE, Image |-> ""],
                   [isNil |-> FALSE, Image |-> "node:16"]}

\* working directories of the step, the job defaults and the workflow defaults
StepWorkingDirectories == {"", "${{2}}"}
JobWorkingDirectories == {"", "job"}
WorkflowWorkingDirectories == {"", "workflow"}

\* step.Run: the lines of the script
Runs == {<<"echo">>, <<"${{2}}", "echo">>}

\* the steps setupShellCommand is applied to
ShellSteps ==
    [ID : {"build"}, Shell : StepShells, WorkingDirectory : StepWorkingDirectories, Run : Runs]
\* rc.Run.Job().Defaults.Run and rc.Run.Workflow.Defaults.Run
RunDefaultsOf(shells, dirs) == [Shell : shells, WorkingDirectory : dirs]

\* mutant: the workflow default is interpolated like the job default
setupShell_InterpolatesWorkflow(Shell, jobDefaults, workflowDefaults, container) ==
    LET fromJob == IF Shell = "" THEN jobDefaults.Shell ELSE Shell
        interpolated == Interpolate(fromJob)
        fromWorkflow == IF interpolated = "" THEN Interpolate(workflowDefaults.Shell)
                        ELSE interpolated
    IN IF ~container.isNil /\ container.Image # "" /\ fromWorkflow = "" THEN "sh"
       ELSE fromWorkflow

\* step_run.go 84-108
setupShell(Shell, jobDefaults, workflowDefaults, container) ==
    LET fromJob == IF Shell = "" THEN jobDefaults.Shell ELSE Shell
        interpolated == Interpolate(fromJob)
        fromWorkflow == IF interpolated = "" THEN workflowDefaults.Shell ELSE interpolated
    IN IF ~container.isNil /\ container.Image # "" /\ fromWorkflow = "" THEN "sh"
       ELSE fromWorkflow

\* step_run.go 110-125
setupWorkingDirectory(WorkingDirectory, jobDefaults, workflowDefaults) ==
    LET fromJob == IF WorkingDirectory = "" THEN jobDefaults.WorkingDirectory
                   ELSE WorkingDirectory
        interpolated == Interpolate(fromJob)
    IN IF interpolated = "" THEN workflowDefaults.WorkingDirectory ELSE interpolated

\* part_003 368-389: the command of the shell, as the words shellquote.Split
\* makes of it; a word is the sequence of its pieces, {0} the placeholder
ShellCommand(Shell) ==
    CASE Shell \in {"", "bash"} ->
            << <<"bash">>, <<"--noprofile">>, <<"--norc">>, <<"-e">>, <<"-o">>,
               <<"pipefail">>, <<"{0}">> >>
      [] Shell = "pwsh" -> << <<"pwsh">>, <<"-command">>, <<".">>, <<"{0}">> >>
      [] Shell = "python" -> << <<"python">>, <<"{0}">> >>
      [] Shell = "sh" -> << <<"sh">>, <<"-e">>, <<"-c">>, <<"{0}">> >>
      [] Shell = "cmd" ->
            << <<"%ComSpec%">>, <<"/D">>, <<"/E:ON">>, <<"/V:OFF">>, <<"/S">>, <<"/C">>,
               <<"CALL ", "{0}">> >>
      [] Shell = "powershell" -> << <<"powershell">>, <<"-command">>, <<".">>, <<"{0}">> >>
      [] OTHER -> << <<Shell>> >>

\* strings.Replace(word, "{0}", scriptPath, 1) on one word
RECURSIVE ReplaceInWord(_, _)
ReplaceInWord(word, scriptPath) ==
    IF word = <<>> THEN <<>>
    ELSE IF Head(word) = "{0}" THEN scriptPath \o Tail(word)
    ELSE <<Head(word)>> \o ReplaceInWord(Tail(word), scriptPath)

\* strings.Replace(scCmd, "{0}", scriptPath, 1): the first placeholder only
RECURSIVE ReplaceFirst(_, _)
ReplaceFirst(words, scriptPath) ==
    IF words = <<>> THEN <<>>
    ELSE IF \E i \in 1..Len(Head(words)) : Head(words)[i] = "{0}"
         THEN <<ReplaceInWord(Head(words), scriptPath)>> \o Tail(words)
    ELSE <<Head(words)>> \o ReplaceFirst(Tail(words), scriptPath)

\* step_run.go 60-72: what is added to the name
extensionOf(Shell) ==
    CASE Shell \in {"bash", "sh"} -> <<".sh">>
      [] Shell \in {"pwsh", "powershell"} -> <<".ps1">>
      [] Shell = "cmd" -> <<".cmd">>
      [] Shell = "python" -> <<".py">>
      [] OTHER -> <<>>

StopOnErrorLine == "$ErrorActionPreference = 'stop'"
LastExitCodeLine == "if ((Test-Path -LiteralPath variable:/LASTEXITCODE)) { exit $LASTEXITCODE }"

\* step_run.go 58-72: runPrepend
runPrependOf(Shell) ==
    CASE Shell \in {"pwsh", "powershell"} -> StopOnErrorLine
      [] Shell = "cmd" -> "@echo off"
      [] OTHER -> ""

\* mutant: the last exit code is not propagated
runAppendOf_Nothing(Shell) == ""

\* step_run.go 59-72: runAppend
runAppendOf(Shell) ==
    CASE Shell \in {"pwsh", "powershell"} -> LastExitCodeLine
      [] OTHER -> ""

\* step_run.go 44-82; a script is the sequence of its lines, a name and a
\* path the sequence of their pieces
setupShellCommand(parents, step, jobDefaults, workflowDefaults, container) ==
    LET Shell == setupShell(step.Shell, jobDefaults, workflowDefaults, container)
        WorkingDirectory ==
            setupWorkingDirectory(step.WorkingDirectory, jobDefaults, workflowDefaults)
        script == [i \in 1..Len(step.Run) |-> Interpolate(step.Run[i])]
        name == getScriptName(parents, step.ID) \o extensionOf(Shell)
        scriptPath == <<ActPath, "/">> \o name
    IN [Shell |-> Shell,
        WorkingDirectory |-> WorkingDirectory,
        name |-> name,
        script |-> <<runPrependOf(Shell)>> \o script \o <<runAppendOf(Shell)>>,
        Cmd |-> ReplaceFirst(ShellCommand(Shell), scriptPath)]

\* setupShellCommand applied to a step context
CallSetupShellCommand(parents, step, jobDefaults, workflowDefaults, container) ==
    /\ call' = [fn |-> "setupShellCommand", parents |-> parents, step |-> step,
                jobDefaults |-> jobDefaults, workflowDefaults |-> workflowDefaults,
                container |-> container,
                out |-> setupShellCommand(parents, step, jobDefaults, workflowDefaults,
                                          container)]
    /\ UNCHANGED stepVars

\* ------------------------------------- package container: run executor
\* the greatest exit status a container is waited for with
MaxStatusCode == 79
StatusCodes == 0..MaxStatusCode

\* what cli.ContainerWait delivers: an error (or nil) on errCh, or a status
\* on statusCh
WaitErrors == {"nil", "wait error"}
Channels == {"errCh", "statusCh"}

\* a returned error: nil, or the pieces its message was formatted from
NilError == <<>>

\* step_run.go 289-310; received is the channel select takes a value from;
\* the messages are written without their backquotes
waitContainer(received, waitErr, StatusCode) ==
    LET statusCode == IF received = "statusCh" THEN StatusCode ELSE 0 IN
    IF received = "errCh" /\ waitErr # "nil" THEN <<waitErr>>
    ELSE IF statusCode = 0 THEN NilError
    ELSE IF statusCode = 78 THEN <<"exiting with NEUTRAL: 78">>
    ELSE <<"exit with FAILURE: ", statusCode>>

\* waitContainer applied to what ContainerWait delivers
CallWaitContainer(received, waitErr, StatusCode) ==
    /\ call' = [fn |-> "waitContainer", received |-> received, waitErr |-> waitErr,
                StatusCode |-> StatusCode,
                out |-> waitContainer(received, waitErr, StatusCode)]
    /\ UNCHANGED stepVars

\* ------------------------------------- package container: docker socket
\* a string is the sequence of its chunks: the delimiter "://", a run of
\* letters, or a run of other text that holds no "://"; "" is <<>>
EmptyString == <<>>
AlphabeticChunks == {"unix", "npipe", "tcp"}

\* the most common socket locations that exist at once
MaxExisting == 2

\* part_001 32-40
CommonSocketPaths ==
    << "/var/run/docker.sock",
       "/run/podman/podman.sock",
       "$HOME/.colima/docker.sock",
       "$XDG_RUNTIME_DIR/docker.sock",
       "$XDG_RUNTIME_DIR/podman/podman.sock",
       "\\\\.\\pipe\\docker_engine",
       "$HOME/.docker/run/docker.sock" >>

\* os.ExpandEnv with HOME=/home/act and XDG_RUNTIME_DIR=/run/user/1000
ExpandEnv(p) ==
    CASE p = "$HOME/.colima/docker.sock" -> "/home/act/.colima/docker.sock"
      [] p = "$XDG_RUNTIME_DIR/docker.sock" -> "/run/user/1000/docker.sock"
      [] p = "$XDG_RUNTIME_DIR/podman/podman.sock" -> "/run/user/1000/podman/podman.sock"
      [] p = "$HOME/.docker/run/docker.sock" -> "/home/act/.docker/run/docker.sock"
      [] OTHER -> p

\* the files os.Lstat can find: some of the common locations
FileSystems ==
    {fs \in SUBSET {ExpandEnv(CommonSocketPaths[i]) : i \in 1..Len(CommonSocketPaths)} :
        Cardinality(fs) <= MaxExisting}

\* the process environment: a variable is unset or has a value
Unset == <<"(unset)">>
EnvironNames == {"DOCKER_HOST", "OTHER"}
DockerHostValues == {<<"unix", "://", "/my/docker/host.sock">>, <<"/my/docker/host.sock">>}
Environs ==
    {[n \in EnvironNames |-> IF n = "DOCKER_HOST" THEN d ELSE o] :
        d \in {Unset} \cup DockerHostValues, o \in {Unset, <<"other">>}}

\* the arguments GetSocketAndHost is called with
SocketArgs ==
    { EmptyString, <<"-">>, <<"/path/to/my.socket">>,
      <<"unix", "://", "/path/to/my.socket">>, <<"unix", "2", "://", "/path/to/my.socket">>,
      <<"://", "/path/to/my.socket">> }
HostArgs ==
    { EmptyString, <<"DOCKER_HOST">>, <<"OTHER">>, <<"unix", "://", "/my/docker/host.sock">>,
      <<"/my/docker/host.sock">> }

\* os.LookupEnv
LookupEnv(environ, name) ==
    IF Len(name) = 1 /\ name[1] \in DOMAIN environ /\ environ[name[1]] # Unset
    THEN [value |-> environ[name[1]], exists |-> TRUE]
    ELSE [value |-> EmptyString, exists |-> FALSE]

\* strings.HasPrefix(p, `\\.\`)
IsPipe(p) == p = "\\\\.\\pipe\\docker_engine"

\* part_001 48-55: the common locations from position i on; filepath.ToSlash
\* leaves a path as it is where the separator is the slash, and the build
\* tag of the file excludes windows
RECURSIVE firstCommonSocket(_, _)
firstCommonSocket(existing, i) ==
    IF i > Len(CommonSocketPaths) THEN [socket |-> EmptyString, found |-> FALSE]
    ELSE LET p == CommonSocketPaths[i] IN
         IF ExpandEnv(p) \in existing
         THEN [socket |-> <<IF IsPipe(p) THEN "npipe" ELSE "unix", "://", ExpandEnv(p)>>,
               found |-> TRUE]
         ELSE firstCommonSocket(existing, i + 1)

\* part_001 43-58
socketLocation(environ, existing) ==
    LET dockerHost == LookupEnv(environ, <<"DOCKER_HOST">>) IN
    IF dockerHost.exists THEN [socket |-> dockerHost.value, found |-> TRUE]
    ELSE firstCommonSocket(existing, 1)

\* strings.Index(daemonPath, "://"), 0 when the delimiter is not found
ProtoIndex(daemonPath) ==
    IF \E i \in 1..Len(daemonPath) : daemonPath[i] = "://"
    THEN CHOOSE i \in 1..Len(daemonPath) :
            /\ daemonPath[i] = "://"
            /\ \A j \in 1..(i - 1) : daemonPath[j] # "://"
    ELSE 0

\* part_001 65-75
isDockerHostURI(daemonPath) ==
    LET protoIndex == ProtoIndex(daemonPath) IN
    /\ protoIndex # 0
    /\ \A j \in 1..(protoIndex - 1) : daemonPath[j] \in AlphabeticChunks

\* part_001 77-80
SocketAndHostOf(Socket, Host) == [Socket |-> Socket, Host |-> Host]
NoSocketAndHost == SocketAndHostOf(EmptyString, EmptyString)

\* part_001 82-145
GetSocketAndHost(containerSocket, dockerHost, environ, existing) ==
    LET looked == LookupEnv(environ, dockerHost)
        hasDockerHost == looked.exists
        fromHost == IF containerSocket = EmptyString /\ hasDockerHost THEN looked.value
                    ELSE containerSocket
        Socket == IF fromHost = EmptyString THEN socketLocation(environ, existing).socket
                  ELSE fromHost
    IN IF ~hasDockerHost /\ containerSocket # EmptyString /\ ~isDockerHostURI(containerSocket)
       THEN [ret |-> NoSocketAndHost,
             err |-> "daemon Docker Engine socket not found and socketHost.socket option was not set"]
       ELSE IF hasDockerHost \/ isDockerHostURI(Socket)
       THEN [ret |-> SocketAndHostOf(Socket, dockerHost), err |-> "nil"]
       ELSE [ret |-> NoSocketAndHost, err |-> "no DOCKER_HOST and an invalid container socket"]

\* GetSocketAndHost applied in a process environment and a file system
CallGetSocketAndHost(containerSocket, dockerHost, environ, existing) ==
    /\ call' = [fn |-> "GetSocketAndHost", containerSocket |-> containerSocket,
                dockerHost |-> dockerHost, environ |-> environ, existing |-> existing,
                out |-> GetSocketAndHost(containerSocket, dockerHost, environ, existing)]
    /\ UNCHANGED stepVars

\* the environments setupEnv is applied to when the step has inputs: X and W
\* are env entries, INPUT_Y the env key of a `with` entry
InputEnvUniverse == {"X", "W", "INPUT_Y", "GITHUB_ACTIONS"}
EnvWith(x, w, y) ==
    [k \in InputEnvUniverse |->
        CASE k = "X" -> x [] k = "W" -> w [] k = "INPUT_Y" -> y [] OTHER -> Absent]
InputJobEnvs == {EnvWith(x, Absent, Absent) : x \in {Absent, "job"}}
InputContainerEnvs == {EnvWith(x, Absent, Absent) : x \in {Absent, "container"}}
InputStepEnvs ==
    {EnvWith(x, w, y) : x \in {Absent, "step", "${{2}}"}, w \in {Absent, "${{env.X}}"},
                        y \in {Absent, "v", "${{2}}", "${{env.X}}"}}

\* setupEnv applied to a step with inputs and an empty env
CallSetupEnvWithInputs(caseInsensitive, rcenv, hasC, cenv, decl) ==
    /\ call' = [fn |-> "setupEnv with inputs", caseInsensitive |-> caseInsensitive,
                rcenv |-> rcenv, hasC |-> hasC, cenv |-> cenv, decl |-> decl,
                out |-> setupEnv(caseInsensitive, EmptyOver(InputEnvUniverse), rcenv, hasC,
                                 cenv, decl)]
    /\ UNCHANGED stepVars

\* ------------------------------------------- package runner: action cache
\* the most files a commit holds
MaxFiles == 2

\* a path is the sequence of its segments, the text between its slashes;
\* "" is <<>>, "a/" is <<"a", "">>
FileNamesOfCommit == {<<"f">>, <<"a">>, <<"a", "f">>, <<"a", "b", "f">>, <<"ab", "f">>}
\* f.Mode: a regular file, a symlink, or a mode ToOSFileMode rejects
FileModes == {"regular", "symlink", "malformed"}
CommitFiles == [Name : FileNamesOfCommit, Mode : FileModes]
Commits == SeqsUpTo(CommitFiles, MaxFiles)
\* the fpath argument
Fpaths == {<<>>, <<".">>, <<"a">>, <<"a", "">>, <<".", "a">>, <<"a", "b">>, <<"f">>,
           <<"a", "..", "ab">>}
\* what opening the repository, the commit and its files can fail with
OpenErrors == {"nil", "PlainOpen", "CommitObject", "Files"}

\* path.Clean on a relative path: empty and . segments are dropped, a
\* segment followed by .. is dropped with it, and nothing left is "."
RECURSIVE CleanInto(_, _)
CleanInto(done, segments) ==
    IF segments = <<>> THEN done
    ELSE LET s == Head(segments) IN
         IF s \in {"", "."} THEN CleanInto(done, Tail(segments))
         ELSE IF s = ".." /\ done # <<>> /\ done[Len(done)] # ".."
              THEN CleanInto(SubSeq(done, 1, Len(done) - 1), Tail(segments))
         ELSE CleanInto(Append(done, s), Tail(segments))
Clean(fpath) == IF CleanInto(<<>>, fpath) = <<>> THEN <<".">> ELSE CleanInto(<<>>, fpath)

\* strings.HasPrefix(name, fcpath+"/")
HasPathPrefix(name, fcpath) ==
    /\ Len(name) > Len(fcpath)
    /\ SubSeq(name, 1, Len(fcpath)) = fcpath

\* action_cache.go 125-129: the file is passed over; fcpath != "" compares
\* with the empty string, <<>>
skipsFile(name, fcpath) ==
    ~HasPathPrefix(name, fcpath) /\ fcpath # <<>> /\ name # fcpath

\* action_cache.go 124-126: the name of the entry
entryName(name, fcpath) ==
    IF HasPathPrefix(name, fcpath) THEN SubSeq(name, Len(fcpath) + 1, Len(name)) ELSE name

\* action_cache.go 123-160: files.ForEach from the first of the files on; it
\* stops at the first error
RECURSIVE forEachFile(_, _, _)
forEachFile(commitFiles, fcpath, entries) ==
    IF commitFiles = <<>> THEN entries
    ELSE LET f == Head(commitFiles) IN
         IF skipsFile(f.Name, fcpath) THEN forEachFile(Tail(commitFiles), fcpath, entries)
         ELSE IF f.Mode = "malformed" THEN entries
         ELSE forEachFile(Tail(commitFiles), fcpath,
                          Append(entries, [Name |-> entryName(f.Name, fcpath),
                                           Typeflag |-> f.Mode]))

\* action_cache.go 104-163: the error returned and the entries the reader
\* of the pipe gets
GetTarArchive(openErr, commitFiles, fpath) ==
    IF openErr # "nil" THEN [err |-> openErr, entries |-> <<>>]
    ELSE [err |-> "nil", entries |-> forEachFile(commitFiles, Clean(fpath), <<>>)]

\* GetTarArchive applied to a commit and a subpath
CallGetTarArchive(openErr, commitFiles, fpath) ==
    /\ call' = [fn |-> "GetTarArchive", openErr |-> openErr, files |-> commitFiles, fpath |-> fpath,
                out |-> GetTarArchive(openErr, commitFiles, fpath)]
    /\ UNCHANGED stepVars

\* --------------------------- package container: NewDockerRunExecutor
\* the most entries input.Content holds
MaxContent == 2
ContentSizes == 0..MaxContent

\* the call of the docker client that fails in a run, if one does
FailingCalls == {"none", "NewClientWithOpts", "ContainerCreate", "ContainerAttach",
                 "ContainerStart"}
\* the exit statuses a run is waited for with
RunStatusCodes == {0, 1, 78}

\* the id cli.ContainerCreate gives the container
ContainerID == "containerID"

\* step_run.go 237-247: an error of ContainerRemove is only logged
removeContainer(containers, containerID, removeOk) ==
    IF removeOk THEN containers \ {containerID} ELSE containers

\* step_run.go 249-258: the entries of input.Content are copied one after the
\* other until a copy fails; copyFailsAt is the entry whose copy fails
copyContentToContainer(content, copyFailsAt) ==
    IF copyFailsAt \in 1..content
    THEN [err |-> <<"copy error">>, copied |-> copyFailsAt - 1]
    ELSE [err |-> NilError, copied |-> content]

\* step_run.go 178-193: what runs once the container exists
runCreated(content, copyFailsAt, failing, received, waitErr, StatusCode) ==
    LET copy == copyContentToContainer(content, copyFailsAt) IN
    IF copy.err # NilError THEN
        [err |-> copy.err, copied |-> copy.copied, ops |-> <<"copyContentToContainer">>]
    ELSE IF failing = "ContainerAttach" THEN
        [err |-> <<"attach error">>, copied |-> copy.copied,
         ops |-> <<"copyContentToContainer", "attachContainer">>]
    ELSE IF failing = "ContainerStart" THEN
        [err |-> <<"start error">>, copied |-> copy.copied,
         ops |-> <<"copyContentToContainer", "attachContainer", "startContainer">>]
    ELSE
        [err |-> waitContainer(received, waitErr, StatusCode), copied |-> copy.copied,
         ops |-> <<"copyContentToContainer", "attachContainer", "startContainer",
                   "waitContainer">>]

\* mutant: the container is removed only after a run without error
deferredCalls_OnSuccess(returned) ==
    IF returned = NilError THEN <<"removeContainer">> ELSE <<>>

\* step_run.go 176: the deferred call runs when the executor returns, whatever
\* it returns
deferredCalls(returned) == <<"removeContainer">>

\* step_run.go 159-197: the error returned, the functions called in order, the
\* entries copied and the containers left behind
NewDockerRunExecutor(Dryrun, content, copyFailsAt, failing, received, waitErr, StatusCode, removeOk) ==
    IF Dryrun THEN
        [err |-> NilError, ops |-> <<>>, copied |-> 0, containers |-> {}]
    ELSE IF failing = "NewClientWithOpts" THEN
        [err |-> <<"client error">>, ops |-> <<>>, copied |-> 0, containers |-> {}]
    ELSE IF failing = "ContainerCreate" THEN
        [err |-> <<"create error">>, ops |-> <<"createContainer">>, copied |-> 0,
         containers |-> {}]
    ELSE
        LET run == runCreated(content, copyFailsAt, failing, received, waitErr, StatusCode)
            deferred == deferredCalls(run.err)
        IN [err |-> run.err,
            ops |-> <<"createContainer">> \o run.ops \o deferred,
            copied |-> run.copied,
            containers |-> IF deferred = <<>> THEN {ContainerID}
                           ELSE removeContainer({ContainerID}, ContainerID, removeOk)]

\* the executor NewDockerRunExecutor returns, run once
CallNewDockerRunExecutor(Dryrun, content, copyFailsAt, failing, received, waitErr, StatusCode, removeOk) ==
    /\ call' = [fn |-> "NewDockerRunExecutor", Dryrun |-> Dryrun, content |-> content,
                copyFailsAt |-> copyFailsAt, failing |-> failing, received |-> received,
                waitErr |-> waitErr, StatusCode |-> StatusCode, removeOk |-> removeOk,
                out |-> NewDockerRunExecutor(Dryrun, content, copyFailsAt, failing, received,
                                             waitErr, StatusCode, removeOk)]
    /\ UNCHANGED stepVars

\* the functions of the packages model and runner applied to bounded
\* arguments, one application in a behaviour
NextCalls ==
    \/ /\ call = NoCall
       /\ \E j \in Jobs : \E order \in Orders(j.matrix.keys \cap AxisKeys) :
              CallGetMatrixes(j, order)
    \/ /\ call = NoCall
       /\ \E str \in MaxParallelStrings : CallGetMaxParallel(str)
    \/ /\ call = NoCall
       /\ \E str \in FailFastStrings : CallGetFailFast(str)
    \/ /\ call = NoCall
       /\ \E Environment \in StepEnvironments, With \in Withs :
              \E order \in Orders(DOMAIN With) : CallGetEnv(Environment, With, order)
    \/ /\ call = NoCall
       /\ \E ci \in BOOLEAN, rcenv \in JobEnvs, hasC \in BOOLEAN, cenv \in JobContainerEnvs,
             decl \in StepEnvs : CallSetupEnv(ci, rcenv, hasC, cenv, decl)
    \/ /\ call = NoCall
       /\ \E ci \in BOOLEAN, target \in MergeTargets, maps \in SeqsUpTo(MergeMaps, MaxMaps) :
              \E orders \in OrdersOf(maps) : CallMergeIntoMap(ci, target, maps, orders)
    \/ /\ call = NoCall
       /\ \E parents \in ParentChains, ID \in ScriptStepIds : CallGetScriptName(parents, ID)
    \/ /\ call = NoCall
       /\ \E parents \in {<<>>, <<"outer">>}, step \in ShellSteps,
             jobDefaults \in RunDefaultsOf(JobDefaultShells, JobWorkingDirectories),
             workflowDefaults \in RunDefaultsOf(WorkflowDefaultShells, WorkflowWorkingDirectories),
             container \in ContainerSpecs :
              CallSetupShellCommand(parents, step, jobDefaults, workflowDefaults, container)
    \/ /\ call = NoCall
       /\ \E received \in Channels, waitErr \in WaitErrors, StatusCode \in StatusCodes :
              CallWaitContainer(received, waitErr, StatusCode)
    \/ /\ call = NoCall
       /\ \E containerSocket \in SocketArgs, dockerHost \in HostArgs, environ \in Environs,
             existing \in FileSystems :
              CallGetSocketAndHost(containerSocket, dockerHost, environ, existing)
    \/ /\ call = NoCall
       /\ \E ci \in BOOLEAN, rcenv \in InputJobEnvs, hasC \in BOOLEAN,
             cenv \in InputContainerEnvs, decl \in InputStepEnvs :
              CallSetupEnvWithInputs(ci, rcenv, hasC, cenv, decl)
    \/ /\ call = NoCall
       /\ \E openErr \in OpenErrors, commitFiles \in Commits, fpath \in Fpaths :
              CallGetTarArchive(openErr, commitFiles, fpath)
    \/ /\ call = NoCall
       /\ \E Dryrun \in BOOLEAN, content \in ContentSizes, copyFailsAt \in ContentSizes,
             failing \in FailingCalls, received \in Channels, waitErr \in WaitErrors,
             StatusCode \in RunStatusCodes, removeOk \in BOOLEAN :
              CallNewDockerRunExecutor(Dryrun, content, copyFailsAt, failing, received,
                                       waitErr, StatusCode, removeOk)

\* the stage invocation stays where it is: no invocation has started
InitCalls == Init /\ ~hasContainer

SpecCalls == InitCalls /\ [][NextCalls]_vars

\* ------------------------------------------------ claims on GetMatrixes
MatrixesReturned == call.fn = "GetMatrixes" /\ HasMatrix(call.job) /\ ~call.out.fatal
Suffix(seq, n) == SubSeq(seq, Len(seq) - n + 1, Len(seq))
Range(seq) == {seq[i] : i \in 1..Len(seq)}

\* the axes of the base matrix and the tuples of their cartesian product
BaseAxes(m) == m.keys \cap AxisKeys
AxisValues(m, k) == IF k \in m.keys THEN Range(m[k]) ELSE {Absent}
ProductSet(m) ==
    {Binding(o, v, Absent, Absent) : o \in AxisValues(m, "os"), v \in AxisValues(m, "version")}
AxisLen(m, k) == IF k \in m.keys THEN Len(m[k]) ELSE 1

\* the include entries one of whose keys is a key of the matrix mapping
NamesMatrixKey(m, entry) == \E k \in m.keys \cap EntryKeys : entry[k] # Absent
IncludesNamingAKey(m) == SelectSeq(m.include, LAMBDA entry : NamesMatrixKey(m, entry))
\* the returned list without the include entries appended to it
ProductPart(m, matrixes) ==
    SubSeq(matrixes, 1, Len(matrixes) - Len(IncludesNamingAKey(m)))

\* t agrees with the exclude entry e on all keys present in e
Agrees(t, e) == \A k \in KeysOf(e) : t[k] = e[k]
ExcludesWellFormed(m) ==
    \A i \in 1..Len(m.exclude) : KeysOf(m.exclude[i]) \subseteq BaseAxes(m)

C12_ExcludeSubsetMatch ==
    (MatrixesReturned /\ ExcludesWellFormed(call.job.matrix)) =>
        LET m == call.job.matrix IN
        Range(ProductPart(m, call.out.matrixes)) =
            {t \in ProductSet(m) : \A i \in 1..Len(m.exclude) : ~Agrees(t, m.exclude[i])}

\* C12 amended: with exclude entries whose keys are all base axes, the tuples
\* of the product that are returned are those that agree with no exclude
\* entry of at least one key on all keys of that entry; an exclude entry
\* without keys drops nothing.
C12_NonEmptyExcludeSubsetMatch ==
    (MatrixesReturned /\ ExcludesWellFormed(call.job.matrix)) =>
        LET m == call.job.matrix IN
        Range(ProductPart(m, call.out.matrixes)) =
            {t \in ProductSet(m) :
                \A i \in 1..Len(m.exclude) :
                    KeysOf(m.exclude[i]) = {} \/ ~Agrees(t, m.exclude[i])}

C12_Witness ==
    /\ MatrixesReturned
    /\ call.job.matrix.os = <<"a", "b">> /\ call.job.matrix.version = <<"1", "2">>
    /\ call.job.matrix.include = <<>>
    /\ call.job.matrix.exclude = <<Binding("a", "1", Absent, Absent)>>
    /\ Range(call.out.matrixes) = { Binding("b", "1", Absent, Absent),
                                    Binding("a", "2", Absent, Absent),
                                    Binding("b", "2", Absent, Absent) }
    /\ Len(call.out.matrixes) = 3

\* C13: an exclude entry with a key that is not an axis of the base matrix
\* makes GetMatrixes end with the fatal error and return no binding.
C13_UnknownExcludeKeyIsFatal ==
    (call.fn = "GetMatrixes" /\ HasMatrix(call.job) /\ ~ExcludesWellFormed(call.job.matrix)) =>
        (call.out.fatal /\ call.out.matrixes = <<>>)

\* C14: without include and exclude entries the returned list is the
\* cartesian product of the axes, each tuple once, so its length is the
\* product of the lengths of the axes.
C14_ExactlyTheProduct ==
    (call.fn = "GetMatrixes" /\ HasMatrix(call.job)
        /\ call.job.matrix.include = <<>> /\ call.job.matrix.exclude = <<>>) =>
        LET m == call.job.matrix IN
        /\ ~call.out.fatal
        /\ Range(call.out.matrixes) = ProductSet(m)
        /\ Len(call.out.matrixes) = Cardinality(ProductSet(m))
        /\ Len(call.out.matrixes) = AxisLen(m, "os") * AxisLen(m, "version")

C14_Witness ==
    /\ call.fn = "GetMatrixes" /\ HasMatrix(call.job)
    /\ call.job.matrix.include = <<>> /\ call.job.matrix.exclude = <<>>
    /\ call.job.matrix.os = <<"a", "b">> /\ call.job.matrix.version = <<"1", "2">>
    /\ call.order = <<"version", "os">>
    /\ Len(call.out.matrixes) = 4

\* C15: a job without a strategy, or with a strategy whose matrix is not a
\* mapping, gets exactly one binding, the empty one.
C15_NoMatrixOneEmptyBinding ==
    (call.fn = "GetMatrixes" /\ ~HasMatrix(call.job)) =>
        (~call.out.fatal /\ call.out.matrixes = <<EmptyBinding>>)

C15_Witness ==
    /\ call.fn = "GetMatrixes"
    /\ call.job.hasStrategy /\ ~call.job.isMapping
    /\ call.out.matrixes = <<EmptyBinding>>

\* ------------------------------- claims on GetMaxParallel and GetFailFast
\* C16: an absent max-parallel literal, and one that is not an integer, give
\* the default value 4.
C16_MaxParallelDefault ==
    (call.fn = "GetMaxParallel"
        /\ (call.MaxParallelString = <<>> \/ Atoi(call.MaxParallelString).err)) =>
        call.out = 4

\* C17: an absent fail-fast literal, and one that is not a boolean, give the
\* default value true.
C17_FailFastDefault ==
    (call.fn = "GetFailFast"
        /\ (call.FailFastString = "" \/ ParseBool(call.FailFastString).err)) =>
        call.out = TRUE

\* ------------------------------------------------------ claims on setupEnv
\* the value of key k in the source of highest precedence that defines it
FromHighestSource(k) ==
    IF call.decl[k] # Absent THEN call.decl[k]
    ELSE IF k \in GithubContextKeys THEN "true"
    ELSE IF call.hasC /\ call.cenv[k] # Absent THEN call.cenv[k]
    ELSE call.rcenv[k]

\* C18: after setupEnv a key holds the (interpolated) value of the source of
\* highest precedence that defines it, in the order job env < job container
\* env (with a container) < execution-context env < step-declared env; a
\* step-declared value is never overwritten.
C18_EnvPrecedence ==
    call.fn = "setupEnv" =>
        \A k \in {"X", "GITHUB_ACTIONS"} :
            /\ call.out[k] = (IF FromHighestSource(k) = Absent THEN Absent
                              ELSE Interpolate(FromHighestSource(k)))
            /\ call.decl[k] # Absent => call.out[k] = Interpolate(call.decl[k])

C18_Witness ==
    /\ call.fn = "setupEnv" /\ call.hasC
    /\ call.rcenv["X"] = "job" /\ call.cenv["X"] = "container" /\ call.decl["X"] = "step"
    /\ call.rcenv["GITHUB_ACTIONS"] = "job" /\ call.cenv["GITHUB_ACTIONS"] = "container"
    /\ call.decl["GITHUB_ACTIONS"] = Absent
    /\ call.out["X"] = "step" /\ call.out["GITHUB_ACTIONS"] = "true"

\* --------------------------------------------------- claims on mergeIntoMap
\* the writes of a merge in the order they are made: <<key, value>>
RECURSIVE WritesOf(_, _)
WritesOf(maps, orders) ==
    IF maps = <<>> THEN <<>>
    ELSE [i \in 1..Len(Head(orders)) |-> <<Head(orders)[i], Head(maps)[Head(orders)[i]]>>]
         \o WritesOf(Tail(maps), Tail(orders))

\* what a case-insensitive merge leaves for the case-folded name f
OneKeyPerFold(f) ==
    LET inTarget == {k \in KeysOf(call.target) : FoldKey(k) = f}
        ws == SelectSeq(WritesOf(call.maps, call.orders), LAMBDA w : FoldKey(w[1]) = f)
        stored == {k \in KeysOf(call.out) : FoldKey(k) = f}
    IN IF inTarget = {} /\ ws = <<>> THEN stored = {}
       ELSE LET first == IF inTarget # {} THEN CHOOSE k \in inTarget : TRUE ELSE ws[1][1]
                last == IF ws # <<>> THEN ws[Len(ws)][2] ELSE call.target[first]
            IN stored = {first} /\ call.out[first] = last

\* what a case-sensitive merge leaves under the key k
RECURSIVE LastValue(_, _, _)
LastValue(k, v, maps) ==
    IF maps = <<>> THEN v
    ELSE LastValue(k, IF Head(maps)[k] # Absent THEN Head(maps)[k] ELSE v, Tail(maps))

\* C19: a case-insensitive merge into a target without two keys of one fold
\* leaves one stored key per case-folded name, in the casing first seen, with
\* the value written last; a case-sensitive merge keeps Path and PATH as two
\* keys, each with the value written last under that very key.
C19_OneStoredKeyPerFoldedName ==
    call.fn = "mergeIntoMap" =>
        IF call.caseInsensitive
        THEN \A f \in {FoldKey(k) : k \in MergeKeys} : OneKeyPerFold(f)
        ELSE \A k \in MergeKeys : call.out[k] = LastValue(k, call.target[k], call.maps)

C19_Witness ==
    /\ call.fn = "mergeIntoMap" /\ call.caseInsensitive
    /\ call.target = EmptyOver(MergeKeys)
    /\ call.maps = <<Single(MergeKeys, "Path", "1"), Single(MergeKeys, "PATH", "2")>>
    /\ call.out = Single(MergeKeys, "Path", "2")

\* ---------------------------------------------------- claims on Step.GetEnv
\* the env key of the `with` key k: upper-cased, every character outside
\* [A-Z0-9-] replaced by _, INPUT_ in front
InputEnvKey(k) ==
    InputKey([i \in 1..Len(k) |->
                 IF ToUpperChar(k[i]) \in {"A", "1", "-"} THEN ToUpperChar(k[i]) ELSE "_"])
InputEnvKeys(With) == {InputEnvKey(k) : k \in DOMAIN With}

\* C20 as claimed: every `with` key has its env key with its declared value,
\* and every step-declared env entry is kept unchanged.
C20_WithKeysBecomeInputs ==
    call.fn = "GetEnv" =>
        /\ \A k \in DOMAIN call.With :
              /\ InputEnvKey(k) \in DOMAIN call.out
              /\ call.out[InputEnvKey(k)] = call.With[k]
        /\ \A e \in DOMAIN call.Environment :
              e \in DOMAIN call.out /\ call.out[e] = call.Environment[e]

\* C20 amended: the env holds the env key of every `with` key, with the
\* declared value of that key or, when several `with` keys have the same env
\* key, of one of them; a step-declared env entry is kept unchanged unless its
\* key is the env key of a `with` key; the env holds no other key.
C20_WithKeysBecomeInputsUnlessColliding ==
    call.fn = "GetEnv" =>
        /\ DOMAIN call.out = DOMAIN call.Environment \cup InputEnvKeys(call.With)
        /\ \A k \in DOMAIN call.With :
              call.out[InputEnvKey(k)] \in
                  {call.With[kk] : kk \in {x \in DOMAIN call.With : InputEnvKey(x) = InputEnvKey(k)}}
        /\ \A e \in DOMAIN call.Environment \ InputEnvKeys(call.With) :
              call.out[e] = call.Environment[e]

C20_Witness ==
    /\ call.fn = "GetEnv"
    /\ call.Environment = (<<"X">> :> "e")
    /\ call.With = (<<"a", " ">> :> "v") @@ (<<"1", ".">> :> "w")
    /\ call.out = (<<"X">> :> "e") @@ (InputKey(<<"A", "_">>) :> "v")
                  @@ (InputKey(<<"1", "_">>) :> "w")

\* ---------------------------------------------- claims on getScriptName
\* the name without its directory workflow/
BaseName(name) == Tail(name)
CountOf(seq, x) == Cardinality({i \in 1..Len(seq) : seq[i] = x})
\* the step ids in front of the -composite- pieces of a base name, in order
PrefixSteps(base) == [i \in 1..((Len(base) - 1) \div 2) |-> base[2 * i - 1]]

\* C21: the script name is the step id prefixed by exactly one
\* `<enclosing step id>-composite-` segment for each parent run context of the
\* chain, and by none when there is no parent; a step build whose run context
\* has the single parent with current step outer is named outer-composite-build.
C21_OnePrefixPerParent ==
    call.fn = "getScriptName" =>
        LET base == BaseName(call.out)
            n == Len(call.parents)
        IN /\ Head(call.out) = "workflow/"
           /\ Len(base) = 2 * n + 1
           /\ base[Len(base)] = call.ID
           /\ \A i \in 1..n : base[2 * i] = "-composite-"
           /\ \A s \in ScriptStepIds : CountOf(PrefixSteps(base), s) = CountOf(call.parents, s)
           /\ (n = 0 => base = <<call.ID>>)
           /\ (call.parents = <<"outer">> /\ call.ID = "build"
                   => base = <<"outer", "-composite-", "build">>)

C21_Witness ==
    /\ call.fn = "getScriptName"
    /\ call.parents = <<"outer">>
    /\ call.ID = "build"
    /\ call.out = <<"workflow/", "outer", "-composite-", "build">>

\* C22 as claimed: under two or more parent run contexts the step id of the
\* innermost ancestor, the parent of the step's own run context, comes first
\* in the name.
C22_InnermostFirst ==
    (call.fn = "getScriptName" /\ Len(call.parents) >= 2) =>
        PrefixSteps(BaseName(call.out)) = call.parents

\* C22 amended: under two or more parent run contexts the prefixes are ordered
\* with the outermost ancestor first and the innermost ancestor last, next to
\* the step id.
C22_OutermostFirst ==
    (call.fn = "getScriptName" /\ Len(call.parents) >= 2) =>
        LET steps == PrefixSteps(BaseName(call.out))
            n == Len(call.parents)
        IN /\ Len(steps) = n
           /\ \A i \in 1..n : steps[i] = call.parents[n - i + 1]

C22_Witness ==
    /\ call.fn = "getScriptName"
    /\ call.parents = <<"inner", "outer">>
    /\ call.ID = "build"
    /\ call.out = <<"workflow/", "outer", "-composite-", "inner", "-composite-", "build">>

\* ------------------------------------------ claims on setupShellCommand
Last(seq) == seq[Len(seq)]
\* the body of the script: step.Run after interpolation, line by line
BodyLines(step) == [i \in 1..Len(step.Run) |-> Interpolate(step.Run[i])]
\* the script holds the body between one line put before it and one after it
Wrapped(script, before, body, after) == script = <<before>> \o body \o <<after>>

\* C23: the resolved shell selects the extension of the name and the lines
\* put around the body: pwsh and powershell give .ps1, the stop-on-error line
\* first and the last-exit-code line last; bash and sh give .sh and add no
\* text; cmd gives .cmd and `@echo off` first; python gives .py; every other
\* shell gives the name without extension and adds no text.
C23_ExtensionAndBoilerplateByShell ==
    call.fn = "setupShellCommand" =>
        LET shell == call.out.Shell
            name == call.out.name
            script == call.out.script
            body == BodyLines(call.step)
            base == getScriptName(call.parents, call.step.ID)
        IN /\ shell \in {"pwsh", "powershell"} =>
                 /\ name = base \o <<".ps1">>
                 /\ Head(script) = StopOnErrorLine
                 /\ Last(script) = LastExitCodeLine
                 /\ Wrapped(script, StopOnErrorLine, body, LastExitCodeLine)
           /\ shell \in {"bash", "sh"} =>
                 /\ name = base \o <<".sh">>
                 /\ Wrapped(script, "", body, "")
           /\ shell = "cmd" =>
                 /\ name = base \o <<".cmd">>
                 /\ Wrapped(script, "@echo off", body, "")
           /\ shell = "python" =>
                 /\ name = base \o <<".py">>
                 /\ Wrapped(script, "", body, "")
           /\ shell \notin {"pwsh", "powershell", "bash", "sh", "cmd", "python"} =>
                 /\ name = base
                 /\ Wrapped(script, "", body, "")

C23_Witness ==
    /\ call.fn = "setupShellCommand"
    /\ call.step.Shell = ""
    /\ call.jobDefaults.Shell = "${{'pwsh'}}"
    /\ call.parents = <<"outer">>
    /\ call.step.Run = <<"${{2}}", "echo">>
    /\ call.out.Shell = "pwsh"
    /\ call.out.name = <<"workflow/", "outer", "-composite-", "build", ".ps1">>
    /\ call.out.script = <<StopOnErrorLine, "2", "echo", LastExitCodeLine>>

\* ----------------------------------------------- claims on waitContainer
\* the container was waited for and its exit status received
StatusReceived == call.fn = "waitContainer" /\ call.received = "statusCh"
IsFailure(e) == e # NilError /\ Head(e) = "exit with FAILURE: "

\* C24: exit status 0 is a success, without error; exit status 78 is a
\* neutral completion, neither a success nor a failure, and no error; every
\* other exit status is a failure error.
C24_ThreeCompletionKinds ==
    StatusReceived =>
        /\ call.StatusCode = 0 => call.out = NilError
        /\ call.StatusCode = 78 => call.out = NilError /\ ~IsFailure(call.out)
        /\ call.StatusCode \notin {0, 78} => IsFailure(call.out)

\* -------------------------------------------- claims on GetSocketAndHost
SocketCall == call.fn = "GetSocketAndHost"
DockerHostValue == call.environ["DOCKER_HOST"]
DockerHostSet == SocketCall /\ DockerHostValue # Unset
DockerHostUnset == SocketCall /\ DockerHostValue = Unset
\* the default socket: what socketLocation returns
DefaultSocket == socketLocation(call.environ, call.existing)
\* a plain file path: not empty, not the dash, no scheme
PlainPaths == {<<"/path/to/my.socket">>}
\* an alphabetic scheme followed by ://
ValidHostURIs == {<<"unix", "://", "/path/to/my.socket">>}

\* C25: with DOCKER_HOST set, GetSocketAndHost returns no error and Host is
\* the value of DOCKER_HOST; Socket is the socket argument when that is not
\* empty, a plain path and the dash included, and the value of DOCKER_HOST when
\* the argument is empty.
C25_DockerHostSet ==
    DockerHostSet =>
        /\ call.out.err = "nil"
        /\ call.out.ret.Host = DockerHostValue
        /\ call.out.ret.Socket = IF call.containerSocket # EmptyString THEN call.containerSocket
                                 ELSE DockerHostValue

\* C26: with DOCKER_HOST unset, an empty socket argument and a common socket
\* location that exists, GetSocketAndHost returns no error, and Socket and
\* Host are both unix:// followed by the first existing location of the list.
C26_DefaultSocketForBoth ==
    (DockerHostUnset /\ call.containerSocket = EmptyString /\ call.existing # {}) =>
        /\ call.out.err = "nil"
        /\ \E i \in 1..Len(CommonSocketPaths) :
              /\ ExpandEnv(CommonSocketPaths[i]) \in call.existing
              /\ \A j \in 1..(i - 1) : ExpandEnv(CommonSocketPaths[j]) \notin call.existing
              /\ call.out.ret = SocketAndHostOf(<<"unix", "://", ExpandEnv(CommonSocketPaths[i])>>,
                                                <<"unix", "://", ExpandEnv(CommonSocketPaths[i])>>)

\* C27: with DOCKER_HOST unset, no common socket location and a plain file
\* path as the socket argument, GetSocketAndHost returns an error together
\* with a value whose Socket is the argument and whose Host is the empty
\* default socket.
C27_InvalidSocketKeepsArgument ==
    (DockerHostUnset /\ call.existing = {} /\ call.containerSocket \in PlainPaths) =>
        /\ call.out.err # "nil"
        /\ call.out.ret = SocketAndHostOf(call.containerSocket, DefaultSocket.socket)

\* C28: with DOCKER_HOST unset, no common socket location and a valid host
\* URI as the socket argument, GetSocketAndHost returns no error and Host is
\* the socket argument.
C28_HostFromSocket ==
    (DockerHostUnset /\ call.existing = {} /\ call.containerSocket \in ValidHostURIs) =>
        /\ call.out.err = "nil"
        /\ call.out.ret.Host = call.containerSocket

\* ------------------------------------- claims on the file-command files
\* C29: when the step body starts, in any stage invocation, the five
\* file-command files exist and are empty, also when the copy that creates
\* them failed; so what is applied after the body is what the body wrote in
\* this invocation, and nothing an earlier step or stage wrote.
C29_FilesEmptyWhenBodyStarts ==
    pc = "executor" => files = EmptyFiles

\* ------------------------------------ claims on the two phases of setupEnv
SetupEnvWithInputs == call.fn = "setupEnv with inputs"
\* the value env.X has for an evaluator whose env context is env
EnvX(env) == IF env["X"] = Absent THEN "" ELSE env["X"]
\* the value of a ${{ }} template that names no context
Constant(v) == IF v = "${{2}}" THEN "2" ELSE v

\* C30: the entries whose key does not start with INPUT_ are interpolated
\* first, against the evaluator of the run context; the INPUT_ entries are
\* interpolated after them against an evaluator built from the environment the
\* first phase left: an INPUT_ value that names env.X gets the resolved value
\* of the step's X, and another value that names env.X gets the run context's.
C30_TwoPhaseInterpolation ==
    SetupEnvWithInputs =>
        /\ call.decl["W"] = "${{env.X}}" => call.out["W"] = EnvX(call.rcenv)
        /\ call.decl["X"] # Absent => call.out["X"] = Constant(call.decl["X"])
        /\ call.decl["INPUT_Y"] = "${{env.X}}" => call.out["INPUT_Y"] = EnvX(call.out)
        /\ call.decl["INPUT_Y"] \notin {Absent, "${{env.X}}"} =>
               call.out["INPUT_Y"] = Constant(call.decl["INPUT_Y"])
        /\ \A k \in {"X", "W", "INPUT_Y"} : call.out[k] # "${{env.X}}" /\ call.out[k] # "${{2}}"

C30_Witness ==
    /\ SetupEnvWithInputs
    /\ call.rcenv["X"] = "job"
    /\ call.decl["X"] = "${{2}}"
    /\ call.decl["W"] = "${{env.X}}"
    /\ call.decl["INPUT_Y"] = "${{env.X}}"
    /\ call.out["X"] = "2"
    /\ call.out["W"] = "job"
    /\ call.out["INPUT_Y"] = "2"

\* ------------------------------------------------- claims on setupShell
ShellResolved == call.fn = "setupShellCommand"
\* the shell the step or, when the step names none, the job defaults name
StepOrJobShell == IF call.step.Shell # "" THEN call.step.Shell ELSE call.jobDefaults.Shell
InContainerWithImage == ~call.container.isNil /\ call.container.Image # ""
ShDefault(shell) == IF shell = "" /\ InContainerWithImage THEN "sh" ELSE shell

\* C31 as claimed: the shell is the step's, else the job default, else the
\* workflow default, the value chosen at each level interpolated; empty and in
\* a container with an image, it is sh.
C31_InterpolatedAtEachLevel ==
    ShellResolved =>
        call.out.Shell =
            ShDefault(IF Interpolate(StepOrJobShell) # "" THEN Interpolate(StepOrJobShell)
                      ELSE Interpolate(call.workflowDefaults.Shell))

\* C31 amended: the step's shell or, when the step names none, the job default
\* is interpolated; when the interpolated value is empty the workflow default
\* is taken as it is written, without interpolation; empty and in a container
\* with an image, the shell is sh.
C31_WorkflowDefaultVerbatim ==
    ShellResolved =>
        /\ Interpolate(StepOrJobShell) # "" => call.out.Shell = Interpolate(StepOrJobShell)
        /\ (Interpolate(StepOrJobShell) = "" /\ call.workflowDefaults.Shell # "") =>
               call.out.Shell = call.workflowDefaults.Shell
        /\ (Interpolate(StepOrJobShell) = "" /\ call.workflowDefaults.Shell = "") =>
               call.out.Shell = IF InContainerWithImage THEN "sh" ELSE ""

C31_Witness ==
    /\ ShellResolved
    /\ call.step.Shell = ""
    /\ call.jobDefaults.Shell = "${{''}}"
    /\ call.workflowDefaults.Shell = "${{'pwsh'}}"
    /\ call.out.Shell = "${{'pwsh'}}"
    /\ call.out.name = <<"workflow/", "build">>

\* ----------------------------------------------- claims on GetTarArchive
\* the archive of a commit all of whose files can be read
ArchiveMade ==
    /\ call.fn = "GetTarArchive"
    /\ call.openErr = "nil"
    /\ \A i \in 1..Len(call.files) : call.files[i].Mode # "malformed"
\* the subpath asked for, without its redundant segments: "" and "." both
\* name the root of the repository, "."
Subpath == Clean(call.fpath)
IsRoot(subpath) == subpath = <<".">>
\* the file lies under the subpath
LiesUnder(name, subpath) == Len(name) > Len(subpath) /\ SubSeq(name, 1, Len(subpath)) = subpath
\* the names of the entries claimed for the files of a commit, in their order
RECURSIVE ClaimedNames(_, _)
ClaimedNames(commitFiles, subpath) ==
    IF commitFiles = <<>> THEN <<>>
    ELSE LET name == Head(commitFiles).Name
             rest == ClaimedNames(Tail(commitFiles), subpath)
         IN IF IsRoot(subpath) THEN <<name>> \o rest
            ELSE IF LiesUnder(name, subpath)
                 THEN <<SubSeq(name, Len(subpath) + 1, Len(name))>> \o rest
            ELSE IF name = subpath THEN <<name>> \o rest
            ELSE rest
EntryNames == [i \in 1..Len(call.out.entries) |-> call.out.entries[i].Name]

\* C32: the archive holds an entry for exactly the files of the commit that
\* lie under the subpath, named without the subpath, or whose name is the
\* subpath; for the subpath "" or "." it holds every file under its own name.
C32_SubpathOrEverything ==
    ArchiveMade => EntryNames = ClaimedNames(call.files, Subpath)


\* C33: GetMaxParallel returns a positive integer whatever the max-parallel
\* literal is: a literal that parses to zero or to a negative integer, and
\* one that does not parse, give no non-positive bound.
C33_AlwaysPositive ==
    call.fn = "GetMaxParallel" => call.out > 0


\* ------------------------------------------- claims on outcome and conclusion
\* the pair a StepResult holds
PairOf(r) == <<r.Outcome, r.Conclusion>>
StatusPairs ==
    {<<StepStatusSuccess, StepStatusSuccess>>, <<StepStatusFailure, StepStatusFailure>>,
     <<StepStatusFailure, StepStatusSuccess>>, <<StepStatusSkipped, StepStatusSkipped>>}
\* an invocation has started and holds its stepResult
Invoking == pc # "idle" /\ stepResult # 0

Recorded == heap[StepResults[CurrentStep]]
\* a main stage has returned an error
MainReturnedError == Returned /\ stage = "Main" /\ ret # "nil"

\* C35: when a main-stage invocation returns an error, the StepResult the run
\* context holds for the step has conclusion = failure, also when the body
\* succeeded or its failure was suppressed and the error comes from the
\* processing of a file-command file.
C35_ErrorMeansFailure ==
    MainReturnedError => Recorded.Conclusion = StepStatusFailure


\* --------------------------------------- claims on NewDockerRunExecutor
DockerRun == call.fn = "NewDockerRunExecutor"
\* the functions of a run in their order
RunOrder == <<"createContainer", "copyContentToContainer", "attachContainer",
              "startContainer", "waitContainer">>
\* the container of the run was created
Created == DockerRun /\ ~call.Dryrun /\ call.failing \notin {"NewClientWithOpts", "ContainerCreate"}
\* what ran before the deferred call
RunOps == SelectSeq(call.out.ops, LAMBDA op : op # "removeContainer")
\* the functions ran in the order create, copy content, attach, start, wait,
\* up to the one that failed
InRunOrder ==
    /\ Len(RunOps) <= Len(RunOrder) /\ RunOps = Prefix(RunOrder, Len(RunOps))
    /\ (Created /\ call.out.err = NilError) => RunOps = RunOrder
\* removeContainer was called once, as the last thing before the return
RemoveCalledLast ==
    /\ call.out.ops # <<>> /\ Last(call.out.ops) = "removeContainer"
    /\ CountOf(call.out.ops, "removeContainer") = 1
\* with Dryrun nothing is created and nothing removed
DryrunDoesNothing == call.Dryrun => (call.out.ops = <<>> /\ call.out.containers = {})

\* C36 as claimed: once the container is created it is removed before the
\* executor returns, on every path; the functions run in the order create, copy
\* content, attach, start, wait; with Dryrun nothing is created or removed.
C36_RemovedOnEveryPath ==
    DockerRun =>
        /\ Created => (RemoveCalledLast /\ call.out.containers = {})
        /\ InRunOrder
        /\ DryrunDoesNothing

\* C36 amended: once the container is created, removeContainer is called for
\* it as the last thing before the executor returns, on every path, and the
\* container is gone when ContainerRemove succeeds; a container that was not
\* created is not removed; the functions run in the order create, copy content,
\* attach, start, wait; with Dryrun nothing is created or removed.
C36_RemoveCalledOnEveryPath ==
    DockerRun =>
        /\ Created => /\ RemoveCalledLast
                      /\ call.removeOk => call.out.containers = {}
        /\ ~Created => CountOf(call.out.ops, "removeContainer") = 0
        /\ InRunOrder
        /\ DryrunDoesNothing

\* the start of a created container fails, the removal is called and fails too
C36_Witness ==
    /\ Created /\ call.failing = "ContainerStart" /\ ~call.removeOk
    /\ call.out.err = <<"start error">>
    /\ call.out.ops = <<"createContainer", "copyContentToContainer", "attachContainer",
                        "startContainer", "removeContainer">>
    /\ call.out.containers = {ContainerID}

====
